---- MODULE Spec2Model ----
(***************************************************************************)
(* State-machine model of the corazonn firmware.                           *)
(*                                                                         *)
(*   Amor      (firmware/amor/src/main.cpp): IDLE/ACTIVE power manager,    *)
(*             signal-quality gate, WiFi retry limit, poor-signal timeout. *)
(*   Heartbeat (firmware/heartbeat_phase1/src/main.cpp): moving average,   *)
(*             baseline envelope, disconnection monitor, beat detector,    *)
(*             and the WiFi wait of setup().                               *)
(*   esp32_test (firmware/esp32_test/src/main.cpp): fixed-threshold beat   *)
(*             detector.                                                   *)
(*                                                                         *)
(* One action is one pass of loop().  Time is the 32-bit millisecond       *)
(* clock; the duration of a pass is an input of the pass.                  *)
(*                                                                         *)
(* Specifications: Spec (Amor), SpecHB (Heartbeat, passes of 10 ms with    *)
(* clock jitter inside detectBeat), SpecSig (Heartbeat tick by tick over   *)
(* 160 ticks, through decay, disconnection and reconnection), SpecMA       *)
(* (Heartbeat tick by tick with any reading in any tick), SpecBL           *)
(* (updateBaseline called repeatedly with the smoothed value held),        *)
(* SpecSleep (Amor with the light sleep that ends each pass), SpecTx       *)
(* (Amor with the transmit buffer and the bundles it sends), SpecClock     *)
(* (the interval computations of both programs on the full 32-bit clock,   *)
(* across its wrap), SpecWdt (Amor with the task watchdog, under weak      *)
(* fairness of loop()), SpecFlat (Heartbeat tick by tick on readings a few *)
(* counts apart), SpecBoot (Heartbeat from the start of setup()), SpecEt   *)
(* (esp32_test), SpecHyst (the control flow of Amor with every check       *)
(* measuring a deviation between the two thresholds, under weak fairness   *)
(* of loop()).                                                             *)
(*                                                                         *)
(* Not modelled: the statistics printout, the LEDs, and the OSC admin      *)
(* commands (compiled only with ENABLE_OSC_ADMIN).                         *)
(* An Amor active pass lasts one admin interval, or once per run as long   *)
(* as the poor-signal timeout; the samples such a pass skips would carry   *)
(* the same two-level waveform as the one it takes.                        *)
(***************************************************************************)
EXTENDS Integers, Sequences, FiniteSets, TLC

(***************************************************************************)
(* Amor: program constants                                                 *)
(***************************************************************************)
SIGNAL_QUALITY_THRESHOLD_TRIGGER == 50
SIGNAL_QUALITY_THRESHOLD_SUSTAIN == 100
SIGNAL_STABILITY_THRESHOLD == 40
SIGNAL_STABILITY_UNKNOWN == 9999
STDDEV_HISTORY_SIZE == 5
IDLE_CHECK_INTERVAL_MS == 500
IDLE_CHECK_SAMPLES == 20
ACTIVE_TRIGGER_COUNT == 1
SUSTAIN_TIMEOUT_MS == 300000
POOR_SIGNAL_GRACE_PERIOD_MS == 10000
WIFI_RETRY_LIMIT == 20
ADC_RING_SIZE == 50
ADC_MAX == 4095
STABILITY_MIN_ENTRIES == 3
STDDEV_MIN_SAMPLES == 10
WIFI_ADMIN_CHECK_INTERVAL_MS == 3000
AMOR_SAMPLE_INTERVAL_MS == 20
BOOT_DELAY_MS == 1000
\* samples in one bundle; include/config.h sets the value, the model takes 5
BUNDLE_SIZE == 5
\* the delay(2) between two readings of an idle burst
BURST_SAMPLE_DELAY_MS == 2
\* the literals 10 and 2 of the two short-sleep tests
IDLE_SLEEP_TOLERANCE_MS == 10
ACTIVE_SLEEP_TOLERANCE_MS == 2

\* esp_err_t, as esp_light_sleep_start() returns it
ESP_OK == "ESP_OK"
ESP_ERR_SLEEP_REJECT == "ESP_ERR_SLEEP_REJECT"

POWER_STATE_IDLE == "IDLE"
POWER_STATE_ACTIVE == "ACTIVE"

\* wl_status_t, the values WiFi.status() can return
WL_CONNECTED == "WL_CONNECTED"
WL_IDLE_STATUS == "WL_IDLE_STATUS"
WL_DISCONNECTED == "WL_DISCONNECTED"
WL_CONNECTION_LOST == "WL_CONNECTION_LOST"
WL_CONNECT_FAILED == "WL_CONNECT_FAILED"
WL_NO_SSID_AVAIL == "WL_NO_SSID_AVAIL"
WL_SCAN_COMPLETED == "WL_SCAN_COMPLETED"
WL_NO_SHIELD == "WL_NO_SHIELD"

WlStatus ==
  { WL_CONNECTED, WL_IDLE_STATUS, WL_DISCONNECTED, WL_CONNECTION_LOST,
    WL_CONNECT_FAILED, WL_NO_SSID_AVAIL, WL_SCAN_COMPLETED, WL_NO_SHIELD }

(***************************************************************************)
(* Bounds and inputs of the model                                          *)
(***************************************************************************)
\* passes of loop() in one run
MaxPasses == 24
\* the sensor signal's amplitude changes at most once in a run, during the
\* first MaxChangePass passes
MaxChangePass == 6
\* active passes in one run that take longer than one admin interval
MaxStalls == 1
\* centre of the ADC waveform
AdcMid == 2000
\* amplitudes of the sensor signal: flat, weak (between the trigger and the
\* sustain threshold), strong
Amps == {0, 60, 2000}
\* duration of one idle pass (burst, light sleep, connection wait)
IdleElapse == {1000}
\* duration of one active pass: one admin interval, or a stall as long as the
\* poor-signal timeout
ActiveElapse == {3000, 310000}

\* 2^31 - 1; an `unsigned long` holds values up to 2 * MaxInt31 + 1
MaxInt31 == 2147483647

\* unsigned 32-bit subtraction, as in `currentTime - lastSampleTime`:
\* (a - b) mod 2^32, written without the number 2^32
Sub32(a, b) == IF a >= b THEN a - b ELSE ((a - b) + MaxInt31) + MaxInt31 + 2

(***************************************************************************)
(* State                                                                   *)
(***************************************************************************)
VARIABLES
  state,                  \* the Amor `state` struct
  lastSampleTime,         \* Amor global
  lastWiFiAdminCheckTime, \* Amor global
  now,                    \* millis()
  radioOn,                \* the WiFi radio (WiFi.mode / WiFi.begin / WIFI_OFF)
  lastOp,                 \* history: what the last pass of loop() did, the
                          \*          powerState it started from and how it
                          \*          left ACTIVE, if it did
  idleChecks,             \* history: idle checks since boot or entry to IDLE
  poorRunStart,           \* history: start of the unbroken run of poor admin
                          \*          checks of the current session, or -1
  downChecks,             \* history: consecutive admin checks of the session
                          \*          that found WiFi not connected
  signal,                 \* environment: amplitude of the sensor signal
  signalChanged,          \* environment: the signal has changed
  passes,                 \* passes of loop() so far
  stalls,                 \* active passes so far that took longer than one
                          \* admin interval
  clk,                    \* SpecClock: a stored timestamp, the time that
                          \*          truly passed since, millis() now, and
                          \*          what an interval computation made of it
  wdt,                    \* SpecWdt: the control flow of loop() around
                          \*          esp_task_wdt_reset(): power state, WiFi
                          \*          retry state, the time since the last
                          \*          admin check, and whether the last pass
                          \*          reset the watchdog
  hy,                     \* SpecHyst: what loop() keeps of its signal-quality
                          \*          checks beside the control flow held in
                          \*          wdt: consecutiveGoodChecks,
                          \*          the stddev history, and the time since
                          \*          poorSignalStartTime was set, or -1
  tx,                     \* SpecTx: the transmit buffer of the Amor `state`
                          \*         struct (sampleBuffer, bufferIndex,
                          \*         bundleStartTime, bundlesSent), with the
                          \*         session and time each sample was acquired
                          \*         in, and the last bundle transmitted
  slp,                    \* history: the light sleep at the end of the last
                          \*          pass (SpecSleep): what was requested,
                          \*          what esp_light_sleep_start did, the
                          \*          delay() that followed, the whole wait
  sensor,                 \* the Heartbeat `sensor` struct
  hbState,                \* the Heartbeat `state` struct
  hbNow,                  \* Heartbeat: millis()
  hbLastSampleTime,       \* Heartbeat: static lastSampleTime of loop()
  hbLastCheckTime,        \* Heartbeat: static lastCheckTime of checkWiFi()
  hbBeat,                 \* history: what detectBeat did in the last pass
  hbEdges,                \* history: rising edges of the smoothed signal and
                          \*          the last two accepted ones
  hbEnv,                  \* environment: the raw reading, the ticks it still
                          \*          holds, its changes and the passes so far
  hbHist,                 \* history kept by the tick-by-tick specifications:
                          \*          the last MOVING_AVG_SAMPLES readings fed
                          \*          to the filter and the time of the last
                          \*          reconnection, or -1
  boot,                   \* Heartbeat: where setup() is (in connectWiFi, in
                          \*          the error blink, or returned), millis()
                          \*          when connectWiFi started and when
                          \*          it last looked at WiFi.status(), the
                          \*          status it saw then, and the
                          \*          blinks of the error state so far
  et                      \* the esp32_test program: its two globals,
                          \*          millis(), and as history the reading
                          \*          of the last pass, whether the pass
                          \*          reported a beat, and the time of the
                          \*          beat reported before the last one

amorVars ==
  << state, lastSampleTime, lastWiFiAdminCheckTime, now, radioOn,
     lastOp, idleChecks, poorRunStart, downChecks, signal, signalChanged,
     passes, stalls, slp, clk, wdt, hy, tx >>

\* Heartbeat, and with it the esp32_test program
hbVars ==
  << sensor, hbState, hbNow, hbLastSampleTime, hbLastCheckTime, hbBeat,
     hbEdges, hbEnv, hbHist, boot, et >>

vars == << amorVars, hbVars >>

(***************************************************************************)
(* Amor: signal quality                                                    *)
(***************************************************************************)
\* analogRead(PPG_GPIO): a two-level waveform of amplitude amp around AdcMid;
\* the level alternates with the slot the sample is written to
AnalogRead(amp, slot) == IF slot % 2 = 0 THEN AdcMid + amp ELSE AdcMid - amp

\* buf[0] + ... + buf[n - 1]; five entries at a step once n is a multiple of 5
RECURSIVE SumFirst(_, _)
SumFirst(buf, n) ==
  IF n = 0 THEN 0
  ELSE IF n % 5 # 0 THEN buf[n - 1] + SumFirst(buf, n - 1)
  ELSE buf[n - 1] + buf[n - 2] + buf[n - 3] + buf[n - 4] + buf[n - 5]
       + SumFirst(buf, n - 5)

\* the sum of (buf[i] - mean)^2 over the first n entries, stepping likewise
RECURSIVE SumSqDiff(_, _, _)
SumSqDiff(buf, n, mean) ==
  LET sq(i) == (buf[i] - mean) * (buf[i] - mean)
  IN IF n = 0 THEN 0
     ELSE IF n % 5 # 0 THEN sq(n - 1) + SumSqDiff(buf, n - 1, mean)
     ELSE sq(n - 1) + sq(n - 2) + sq(n - 3) + sq(n - 4) + sq(n - 5)
          + SumSqDiff(buf, n - 5, mean)

\* (uint16_t)sqrt((double)x / n): the largest k with k*k*n <= x
RECURSIVE SqrtSearch(_, _, _, _)
SqrtSearch(x, n, lo, hi) ==
  IF lo >= hi THEN lo
  ELSE LET mid == (lo + hi + 1) \div 2
       IN IF mid * mid * n <= x THEN SqrtSearch(x, n, mid, hi)
          ELSE SqrtSearch(x, n, lo, mid - 1)

\* a deviation of 12-bit readings is at most ADC_MAX
SqrtDiv(x, n) == SqrtSearch(x, n, 0, ADC_MAX)

StddevOf(buf, n) ==
  LET mean == SumFirst(buf, n) \div n
  IN SqrtDiv(SumSqDiff(buf, n, mean), n)

calculateStddev(s) ==
  IF s.sampleCount < STDDEV_MIN_SAMPLES THEN 0
  ELSE StddevOf(s.adcRingBuffer, s.sampleCount)

updateStddevHistory(s, stddev) ==
  [s EXCEPT
     !.stddevHistory = [@ EXCEPT ![s.stddevHistoryIndex] = stddev],
     !.stddevHistoryIndex = (s.stddevHistoryIndex + 1) % STDDEV_HISTORY_SIZE,
     !.stddevHistoryCount =
        IF s.stddevHistoryCount < STDDEV_HISTORY_SIZE
        THEN s.stddevHistoryCount + 1 ELSE s.stddevHistoryCount]

\* calculateSignalStability without the sentinel for a short history
calculateSignalStability_NoSentinel(s) ==
  IF s.stddevHistoryCount = 0 THEN SIGNAL_STABILITY_UNKNOWN
  ELSE StddevOf(s.stddevHistory, s.stddevHistoryCount)

calculateSignalStability(s) ==
  IF s.stddevHistoryCount < STABILITY_MIN_ENTRIES THEN SIGNAL_STABILITY_UNKNOWN
  ELSE StddevOf(s.stddevHistory, s.stddevHistoryCount)

\* one sample into the rolling statistics buffer
RingPut(s, sample) ==
  [s EXCEPT
     !.adcRingBuffer = [@ EXCEPT ![s.adcRingIndex] = sample],
     !.adcRingIndex = (s.adcRingIndex + 1) % ADC_RING_SIZE,
     !.sampleCount = IF s.sampleCount < ADC_RING_SIZE THEN s.sampleCount + 1
                     ELSE s.sampleCount]

\* the burst loop of idleStateLoop: n <= ADC_RING_SIZE samples of a signal of
\* amplitude amp, written to the n slots from adcRingIndex on
Burst(s, amp, n) ==
  LET written(i) == (i - s.adcRingIndex) % ADC_RING_SIZE < n
  IN [s EXCEPT
        !.adcRingBuffer = [i \in 0..(ADC_RING_SIZE - 1) |->
                             IF written(i) THEN AnalogRead(amp, i) ELSE @[i]],
        !.adcRingIndex = (s.adcRingIndex + n) % ADC_RING_SIZE,
        !.sampleCount = IF s.sampleCount + n < ADC_RING_SIZE
                        THEN s.sampleCount + n ELSE ADC_RING_SIZE]

\* SignalGood with the stability test left out
SignalGood_MagnitudeOnly(stddev, stability) ==
  stddev > SIGNAL_QUALITY_THRESHOLD_TRIGGER

SignalGood(stddev, stability) ==
  /\ stddev > SIGNAL_QUALITY_THRESHOLD_TRIGGER
  /\ stability < SIGNAL_STABILITY_THRESHOLD

\* the sustain test made at the trigger threshold
SustainGood_AtTrigger(stddev) == stddev > SIGNAL_QUALITY_THRESHOLD_TRIGGER

SustainGood(stddev) == stddev > SIGNAL_QUALITY_THRESHOLD_SUSTAIN

PoorTimedOut(currentTime, poorStart) ==
  Sub32(currentTime, poorStart) >= POOR_SIGNAL_GRACE_PERIOD_MS + SUSTAIN_TIMEOUT_MS

(***************************************************************************)
(* Amor: power state management.  The operators take and return the pair   *)
(* [s |-> the state struct, radio |-> the WiFi radio].                     *)
(***************************************************************************)
\* enterIdleState that leaves the statistics ring buffer as the session left it
enterIdleState_KeepsRing(w) ==
  [ s |-> [w.s EXCEPT
             !.powerState = POWER_STATE_IDLE,
             !.consecutiveGoodChecks = 0,
             !.transitionsToIdle = @ + 1,
             !.stddevHistoryCount = 0,
             !.stddevHistoryIndex = 0,
             !.stddevHistory = [i \in 0..(STDDEV_HISTORY_SIZE - 1) |-> 0],
             !.wifiRetryCount = 0,
             !.wifiConnected = FALSE],
    radio |-> IF w.s.wifiConnected THEN FALSE ELSE w.radio ]

\* enterIdleState that empties the statistics ring buffer (sampleCount = 0)
\* but leaves its write index where the session left it
enterIdleState_KeepsIndex(w) ==
  [ s |-> [w.s EXCEPT
             !.powerState = POWER_STATE_IDLE,
             !.consecutiveGoodChecks = 0,
             !.transitionsToIdle = @ + 1,
             !.stddevHistoryCount = 0,
             !.stddevHistoryIndex = 0,
             !.stddevHistory = [i \in 0..(STDDEV_HISTORY_SIZE - 1) |-> 0],
             !.sampleCount = 0,
             !.wifiRetryCount = 0,
             !.wifiConnected = FALSE],
    radio |-> IF w.s.wifiConnected THEN FALSE ELSE w.radio ]

\* enterIdleState that leaves the WiFi retry counter as the session left it
enterIdleState_KeepsRetries(w) ==
  [ s |-> [w.s EXCEPT
             !.powerState = POWER_STATE_IDLE,
             !.consecutiveGoodChecks = 0,
             !.transitionsToIdle = @ + 1,
             !.stddevHistoryCount = 0,
             !.stddevHistoryIndex = 0,
             !.stddevHistory = [i \in 0..(STDDEV_HISTORY_SIZE - 1) |-> 0],
             !.sampleCount = 0,
             !.adcRingIndex = 0,
             !.wifiConnected = FALSE],
    radio |-> IF w.s.wifiConnected THEN FALSE ELSE w.radio ]

enterIdleState(w) ==
  [ s |-> [w.s EXCEPT
             !.powerState = POWER_STATE_IDLE,
             !.consecutiveGoodChecks = 0,
             !.transitionsToIdle = @ + 1,
             !.stddevHistoryCount = 0,
             !.stddevHistoryIndex = 0,
             !.stddevHistory = [i \in 0..(STDDEV_HISTORY_SIZE - 1) |-> 0],
             !.sampleCount = 0,
             !.adcRingIndex = 0,
             !.wifiRetryCount = 0,
             !.wifiConnected = FALSE],
    radio |-> IF w.s.wifiConnected THEN FALSE ELSE w.radio ]

\* setupWiFi: WiFi.mode(WIFI_STA), WiFi.begin, wait; status is WiFi.status()
\* after the wait
setupWiFi(w, status) ==
  [ s |-> [w.s EXCEPT !.wifiConnected = (status = WL_CONNECTED)],
    radio |-> TRUE ]

\* enterActiveState that falls back to IDLE when the connection attempt fails
enterActiveState_NeedsWiFi(w, status) ==
  LET w1 == [w EXCEPT !.s.powerState = POWER_STATE_ACTIVE,
                      !.s.transitionsToActive = @ + 1,
                      !.s.wifiRetryCount = 0]
      w2 == setupWiFi(w1, status)
  IN IF ~w2.s.wifiConnected
     THEN [w2 EXCEPT !.s.wifiRetryCount = @ + 1,
                     !.s.powerState = POWER_STATE_IDLE]
     ELSE w2

enterActiveState(w, status) ==
  LET w1 == [w EXCEPT !.s.powerState = POWER_STATE_ACTIVE,
                      !.s.transitionsToActive = @ + 1,
                      !.s.wifiRetryCount = 0]
      w2 == setupWiFi(w1, status)
  IN IF ~w2.s.wifiConnected
     THEN [w2 EXCEPT !.s.wifiRetryCount = @ + 1]
     ELSE w2

RetryStatus(status) ==
  status \in {WL_DISCONNECTED, WL_CONNECTION_LOST, WL_CONNECT_FAILED, WL_NO_SSID_AVAIL}

checkWiFi(w, status) ==
  LET previousState == w.s.wifiConnected
      connected == (status = WL_CONNECTED)
      w1 == [w EXCEPT !.s.wifiConnected = connected]
  IN IF ~connected
     THEN IF RetryStatus(status)
          THEN [w1 EXCEPT !.s.wifiRetryCount = @ + 1, !.radio = TRUE]
          ELSE IF status = WL_IDLE_STATUS
               THEN [w1 EXCEPT !.s.wifiRetryCount = @ + 1]
               ELSE w1
     ELSE IF ~previousState
          THEN [w1 EXCEPT !.s.wifiRetryCount = 0]
          ELSE w1

RetryLimitExceeded(s) == s.wifiRetryCount >= WIFI_RETRY_LIMIT

(***************************************************************************)
(* Amor: idleStateLoop                                                     *)
(***************************************************************************)
\* the burst, the quality measurement and the history update
IdleMeasure(s, amp) ==
  LET s1 == Burst(s, amp, IDLE_CHECK_SAMPLES)
      sd == calculateStddev(s1)
  IN updateStddevHistory([s1 EXCEPT !.lastStddev = sd], sd)

\* the decision of idleStateLoop on the measured state s2
IdleDecide(w, s2, stability, status) ==
  IF SignalGood(s2.lastStddev, stability)
  THEN LET s3 == [s2 EXCEPT !.consecutiveGoodChecks = @ + 1]
       IN IF s3.consecutiveGoodChecks >= ACTIVE_TRIGGER_COUNT
          THEN enterActiveState([w EXCEPT !.s = s3], status)
          ELSE [w EXCEPT !.s = s3]
  ELSE [w EXCEPT !.s = [s2 EXCEPT !.consecutiveGoodChecks = 0]]

(***************************************************************************)
(* Amor: activeStateLoop                                                   *)
(***************************************************************************)
SampleDue(currentTime) ==
  Sub32(currentTime, lastSampleTime) >= AMOR_SAMPLE_INTERVAL_MS

AdminDue(currentTime) ==
  Sub32(currentTime, lastWiFiAdminCheckTime) >= WIFI_ADMIN_CHECK_INTERVAL_MS

samplePPG(s, amp) == RingPut(s, AnalogRead(amp, s.adcRingIndex))

\* SustainCheck whose good check leaves the poor-signal timer running
SustainCheck_NoClear(w, sd, currentTime) ==
  LET w1 == [w EXCEPT !.s.lastStddev = sd]
  IN IF SustainGood(sd)
     THEN [w |-> w1, exit |-> "none"]
     ELSE LET w2 == IF w1.s.poorSignalStartTime = 0
                    THEN [w1 EXCEPT !.s.poorSignalStartTime = currentTime]
                    ELSE w1
          IN IF PoorTimedOut(currentTime, w2.s.poorSignalStartTime)
             THEN [w |-> enterIdleState(w2), exit |-> "poor"]
             ELSE [w |-> w2, exit |-> "none"]

\* the signal-quality part of the admin check; sd is calculateStddev() of the
\* ring buffer; exit is "poor" when the pass returns to IDLE
SustainCheck(w, sd, currentTime) ==
  LET w1 == [w EXCEPT !.s.lastStddev = sd]
  IN IF SustainGood(sd)
     THEN [w |-> [w1 EXCEPT !.s.poorSignalStartTime = 0], exit |-> "none"]
     ELSE LET w2 == IF w1.s.poorSignalStartTime = 0
                    THEN [w1 EXCEPT !.s.poorSignalStartTime = currentTime]
                    ELSE w1
          IN IF PoorTimedOut(currentTime, w2.s.poorSignalStartTime)
             THEN [w |-> enterIdleState(w2), exit |-> "poor"]
             ELSE [w |-> w2, exit |-> "none"]

\* the admin check of activeStateLoop: checkWiFi, the retry limit, then the
\* sustain timer (checkWiFi does not touch the ring buffer, so sd is the
\* deviation the sustain check computes)
AdminCheck(w, status, sd, currentTime) ==
  LET w1 == checkWiFi(w, status)
  IN IF RetryLimitExceeded(w1.s)
     THEN [w |-> enterIdleState(w1), exit |-> "retry"]
     ELSE SustainCheck(w1, sd, currentTime)

(***************************************************************************)
(* Amor: construction (the static initialiser of `state`, then setup())    *)
(***************************************************************************)
AmorInitState ==
  [ wifiConnected |-> FALSE,
    adcRingBuffer |-> [i \in 0..(ADC_RING_SIZE - 1) |-> 0],
    adcRingIndex |-> 0,
    sampleCount |-> 0,
    powerState |-> POWER_STATE_IDLE,
    lastStddev |-> 0,
    consecutiveGoodChecks |-> 0,
    poorSignalStartTime |-> 0,
    stddevHistory |-> [i \in 0..(STDDEV_HISTORY_SIZE - 1) |-> 0],
    stddevHistoryIndex |-> 0,
    stddevHistoryCount |-> 0,
    wifiRetryCount |-> 0,
    transitionsToIdle |-> 0,
    transitionsToActive |-> 0 ]

\* no light sleep has been taken yet
NoSleep ==
  [ kind |-> "none", requested |-> 0, err |-> ESP_OK, slept |-> 0,
    delayed |-> 0, wait |-> 0 ]

\* no interval computation has been looked at
NoClock ==
  [ last |-> 0, d |-> 0, now |-> 0, op |-> "boot", flag |-> FALSE,
    val |-> 0 ]

\* everything but the clock under test
AmorBoot ==
  /\ state = AmorInitState
  /\ lastSampleTime = 0
  /\ lastWiFiAdminCheckTime = 0
  /\ now = BOOT_DELAY_MS
  /\ radioOn = FALSE
  /\ lastOp = [op |-> "boot", from |-> POWER_STATE_IDLE, exit |-> "none"]
  /\ idleChecks = 0
  /\ poorRunStart = -1
  /\ downChecks = 0
  /\ signal \in Amps
  /\ signalChanged = FALSE
  /\ passes = 0
  /\ stalls = 0
  /\ slp = NoSleep

\* setup(): the watchdog is initialised and reset, the device is in IDLE
WdtBoot ==
  [ s |-> [ powerState |-> POWER_STATE_IDLE, wifiConnected |-> FALSE,
            wifiRetryCount |-> 0 ],
    radio |-> FALSE, sinceAdmin |-> 0, op |-> "boot", reset |-> TRUE ]

\* a slot of sampleBuffer: the reading, and as history the session
\* (transitionsToActive) and the time it was acquired in
NoSample == [value |-> 0, session |-> 0, time |-> 0]

\* the transmit buffer as the static initialiser of `state` leaves it; sent is
\* the last bundle handed to UDP, with the session it was sent in
TxBoot ==
  [ sampleBuffer |-> [i \in 0..(BUNDLE_SIZE - 1) |-> NoSample],
    bufferIndex |-> 0,
    bundleStartTime |-> 0,
    bundlesSent |-> 0,
    sent |-> [samples |-> [i \in 0..(BUNDLE_SIZE - 1) |-> NoSample],
              timestamp |-> 0, session |-> 0] ]

\* the signal-quality fields of the static initialiser of `state`;
\* poorSignalStartTime is 0, which the code reads as "not set"
HyBoot ==
  [ consecutiveGoodChecks |-> 0,
    stddevHistory |-> [i \in 0..(STDDEV_HISTORY_SIZE - 1) |-> 0],
    stddevHistoryIndex |-> 0,
    stddevHistoryCount |-> 0,
    poorAge |-> -1 ]

AmorInit ==
  AmorBoot /\ clk = NoClock /\ wdt = WdtBoot /\ tx = TxBoot /\ hy = HyBoot

(***************************************************************************)
(* Amor: loop()                                                            *)
(***************************************************************************)
Saturate(n, cap) == IF n < cap THEN n + 1 ELSE cap

\* the amplitudes the signal can have during the next pass
NextSignals ==
  IF ~signalChanged /\ passes < MaxChangePass THEN Amps
  ELSE {signal}

\* a pass of loop() during which the signal has amplitude amp and which
\* takes e milliseconds
Pass(amp, e) ==
  /\ passes < MaxPasses
  /\ passes' = passes + 1
  /\ signal' = amp
  /\ signalChanged' = (signalChanged \/ amp # signal)
  /\ now' = now + e
  /\ UNCHANGED << hbVars, clk, wdt, hy >>

\* the dispatch of loop()
IdleTurn == state.powerState = POWER_STATE_IDLE

ActiveTurn == state.powerState # POWER_STATE_IDLE

\* loop() in IDLE: one idleStateLoop.  status is what WiFi.status() reports at
\* the end of setupWiFi's wait (read only when the pass enters ACTIVE).
AmorIdlePass(s2, stability, amp, status, e) ==
  /\ Pass(amp, e)
  /\ \E w \in {IdleDecide([s |-> state, radio |-> radioOn], s2, stability, status)} :
       LET entered == w.s.powerState = POWER_STATE_ACTIVE
       IN /\ state' = w.s
          /\ radioOn' = w.radio
          /\ lastWiFiAdminCheckTime' =
               IF entered THEN now + e ELSE lastWiFiAdminCheckTime
          /\ poorRunStart' = IF entered THEN -1 ELSE poorRunStart
          /\ downChecks' = IF entered THEN 0 ELSE downChecks
  /\ lastOp' = [op |-> "idle", from |-> state.powerState, exit |-> "none"]
  /\ idleChecks' = Saturate(idleChecks, STABILITY_MIN_ENTRIES)
  /\ UNCHANGED << lastSampleTime, stalls >>

\* an idle pass reads WiFi.status() only when it enters ACTIVE
IdleStatuses(s2, stability) ==
  IF SignalGood(s2.lastStddev, stability) THEN WlStatus ELSE {WL_NO_SHIELD}

AmorIdle ==
  /\ IdleTurn
  /\ \E amp \in NextSignals :
       \E s2 \in {IdleMeasure(state, amp)} :
         \E stability \in {calculateSignalStability(s2)} :
           \E status \in IdleStatuses(s2, stability), e \in IdleElapse :
             AmorIdlePass(s2, stability, amp, status, e)
  /\ UNCHANGED << slp, tx >>

\* the state after samplePPG() at currentTime
AfterSample(amp) ==
  IF SampleDue(now) THEN samplePPG(state, amp) ELSE state

\* the durations an active pass can have
NextElapse == IF stalls < MaxStalls THEN ActiveElapse ELSE {WIFI_ADMIN_CHECK_INTERVAL_MS}

Elapse(e) == stalls' = IF e > WIFI_ADMIN_CHECK_INTERVAL_MS THEN stalls + 1 ELSE stalls

\* a sample pass that runs the sustain check although the admin check is not
\* due
AmorSamplePass_SustainCheck(amp, e) ==
  /\ Pass(amp, e)
  /\ Elapse(e)
  /\ \E r \in {SustainCheck([s |-> AfterSample(amp), radio |-> radioOn],
                             calculateStddev(AfterSample(amp)), now)} :
       /\ state' = r.w.s
       /\ radioOn' = r.w.radio
  /\ lastSampleTime' = IF SampleDue(now) THEN now ELSE lastSampleTime
  /\ lastOp' = [op |-> "sample", from |-> state.powerState, exit |-> "none"]
  /\ UNCHANGED << lastWiFiAdminCheckTime, idleChecks, poorRunStart,
                  downChecks >>

\* loop() in ACTIVE when the admin check is not due: sample, then sleep
AmorSamplePass(amp, e) ==
  /\ Pass(amp, e)
  /\ Elapse(e)
  /\ state' = AfterSample(amp)
  /\ lastSampleTime' = IF SampleDue(now) THEN now ELSE lastSampleTime
  /\ lastOp' = [op |-> "sample", from |-> state.powerState, exit |-> "none"]
  /\ UNCHANGED << lastWiFiAdminCheckTime, radioOn, idleChecks, poorRunStart,
                  downChecks >>

AmorSample ==
  /\ ActiveTurn
  /\ ~AdminDue(now)
  /\ \E amp \in NextSignals, e \in NextElapse : AmorSamplePass(amp, e)
  /\ UNCHANGED << slp, tx >>

\* loop() in ACTIVE when the admin check is due: sample, checkWiFi, retry
\* limit, sustain timer
AmorAdminPass(s1, sd, amp, status, e) ==
  /\ Pass(amp, e)
  /\ Elapse(e)
  /\ \E r \in {AdminCheck([s |-> s1, radio |-> radioOn], status, sd, now)} :
       LET poor == r.w.s.lastStddev <= SIGNAL_QUALITY_THRESHOLD_SUSTAIN
       IN /\ state' = r.w.s
          /\ radioOn' = r.w.radio
          /\ lastOp' = [op |-> "admin", from |-> state.powerState,
                           exit |-> r.exit]
          /\ idleChecks' = IF r.exit = "none" THEN idleChecks ELSE 0
          /\ poorRunStart' =
               IF r.exit = "retry" THEN poorRunStart
               ELSE IF ~poor THEN -1
               ELSE IF poorRunStart = -1 THEN now ELSE poorRunStart
  /\ downChecks' = IF status = WL_CONNECTED THEN 0
                   ELSE Saturate(downChecks, WIFI_RETRY_LIMIT)
  /\ lastSampleTime' = IF SampleDue(now) THEN now ELSE lastSampleTime
  /\ lastWiFiAdminCheckTime' = now

AmorAdmin ==
  /\ ActiveTurn
  /\ AdminDue(now)
  /\ \E amp \in NextSignals :
       \E s1 \in {AfterSample(amp)} :
         \E sd \in {calculateStddev(s1)} :
           \E status \in WlStatus, e \in NextElapse :
             AmorAdminPass(s1, sd, amp, status, e)
  /\ UNCHANGED << slp, tx >>

(***************************************************************************)
(* Amor: the transmit buffer                                               *)
(***************************************************************************)
\* sendPPGBundle without the test of the wifiConnected flag
sendPPGBundle_Unconditional(t, wifiConnected, session) ==
  [t EXCEPT !.sent = [samples |-> t.sampleBuffer,
                      timestamp |-> t.bundleStartTime,
                      session |-> session],
            !.bundlesSent = @ + 1]

\* sendPPGBundle on the transmit buffer t: nothing without WiFi, else the
\* BUNDLE_SIZE samples and bundleStartTime go out; session is the session
\* the call is made in
sendPPGBundle(t, wifiConnected, session) ==
  IF ~wifiConnected THEN t
  ELSE [t EXCEPT !.sent = [samples |-> t.sampleBuffer,
                           timestamp |-> t.bundleStartTime,
                           session |-> session],
                 !.bundlesSent = @ + 1]

\* the part of samplePPG that fills the transmit buffer, for a sample that is
\* due at currentTime; s is the `state` struct before the call
samplePPGBuffer(t, s, sample, currentTime) ==
  LET t1 == IF t.bufferIndex = 0
            THEN [t EXCEPT !.bundleStartTime = currentTime] ELSE t
      t2 == [t1 EXCEPT !.sampleBuffer[t.bufferIndex] =
                          [value |-> sample,
                           session |-> s.transitionsToActive,
                           time |-> currentTime],
                       !.bufferIndex = @ + 1]
  IN IF t2.bufferIndex >= BUNDLE_SIZE
     THEN [sendPPGBundle(t2, s.wifiConnected, s.transitionsToActive)
             EXCEPT !.bufferIndex = 0]
     ELSE t2

\* passes of loop() in one run of SpecTx
MaxTxPasses == 14

\* the transmit buffer after samplePPG() at currentTime = now
TxAfterSample(amp) ==
  IF SampleDue(now)
  THEN samplePPGBuffer(tx, state, AnalogRead(amp, state.adcRingIndex), now)
  ELSE tx

\* loop() in ACTIVE with the transmit buffer, the admin check not due
TxSample ==
  /\ ActiveTurn
  /\ ~AdminDue(now)
  /\ passes < MaxTxPasses
  /\ \E amp \in NextSignals, e \in NextElapse :
       /\ AmorSamplePass(amp, e)
       /\ tx' = TxAfterSample(amp)
  /\ UNCHANGED slp

\* loop() in ACTIVE with the transmit buffer, the admin check due
TxAdmin ==
  /\ ActiveTurn
  /\ AdminDue(now)
  /\ passes < MaxTxPasses
  /\ \E amp \in NextSignals :
       \E s1 \in {AfterSample(amp)} :
         \E sd \in {calculateStddev(s1)} :
           \E status \in WlStatus, e \in NextElapse :
             /\ AmorAdminPass(s1, sd, amp, status, e)
             /\ tx' = TxAfterSample(amp)
  /\ UNCHANGED slp

\* loop() in IDLE leaves the transmit buffer alone
TxIdle == passes < MaxTxPasses /\ AmorIdle

TxNext == TxIdle \/ TxSample \/ TxAdmin

(***************************************************************************)
(* Amor: light sleep at the end of a pass                                  *)
(***************************************************************************)
\* passes of loop() in one run of SpecSleep
MaxSleepPasses == 6
\* the time the work of an active pass takes before its sleep: negligible, or
\* nearly one admin interval (Serial output, a blocked UDP send)
ActiveWork == {0, 2980}

\* what esp_light_sleep_start() can do with a request of req ms, as the
\* return code and the millis() that passed: rejected at once, woken at once,
\* woken just beyond the tolerance tol, woken at the tolerance, slept in full
SleepResults(req, tol) ==
  { [err |-> ESP_ERR_SLEEP_REJECT, slept |-> 0],
    [err |-> ESP_OK, slept |-> 0],
    [err |-> ESP_OK, slept |-> req] }
  \cup { [err |-> ESP_OK, slept |-> d] : d \in {req - tol - 1, req - tol} \cap Nat }

\* idleStateLoop after esp_light_sleep_start(): the argument of the delay()
\* that follows, 0 when there is none
idleSleepDelay_NoMakeup(err, sleepDuration) ==
  IF err # ESP_OK THEN IDLE_CHECK_INTERVAL_MS
  ELSE 0

idleSleepDelay(err, sleepDuration) ==
  IF err # ESP_OK THEN IDLE_CHECK_INTERVAL_MS
  ELSE IF sleepDuration < IDLE_CHECK_INTERVAL_MS - IDLE_SLEEP_TOLERANCE_MS
       THEN IDLE_CHECK_INTERVAL_MS - sleepDuration
  ELSE 0

\* activeStateLoop: `nextSampleTime`, and `sleepTimeMs` (0 when currentTime
\* is not before nextSampleTime)
nextSampleTime(last) == last + AMOR_SAMPLE_INTERVAL_MS

sleepTimeMs(currentTime, last) ==
  IF currentTime < nextSampleTime(last)
  THEN Sub32(nextSampleTime(last), currentTime)
  ELSE 0

\* activeStateLoop after esp_light_sleep_start(): the argument of the delay()
\* that follows, 0 when there is none
activeSleepDelay(req, err, actualSleep) ==
  IF err # ESP_OK THEN req
  ELSE IF actualSleep < req - ACTIVE_SLEEP_TOLERANCE_MS
       THEN req - actualSleep
  ELSE 0

\* the record of one light sleep and the delay() after it
Slept(kind, req, r, d) ==
  [ kind |-> kind, requested |-> req, err |-> r.err, slept |-> r.slept,
    delayed |-> d, wait |-> r.slept + d ]

\* the duration of the burst of an idle check
BurstMs == IDLE_CHECK_SAMPLES * BURST_SAMPLE_DELAY_MS

\* idleStateLoop with its sleep: a check that enters ACTIVE returns before
\* the sleep, any other check sleeps for IDLE_CHECK_INTERVAL_MS
SleepIdle ==
  /\ IdleTurn
  /\ passes < MaxSleepPasses
  /\ UNCHANGED tx
  /\ \E amp \in NextSignals :
       \E s2 \in {IdleMeasure(state, amp)} :
         \E stability \in {calculateSignalStability(s2)} :
           IF SignalGood(s2.lastStddev, stability)
           THEN /\ \E status \in WlStatus, e \in IdleElapse :
                     AmorIdlePass(s2, stability, amp, status, e)
                /\ slp' = NoSleep
           ELSE \E r \in SleepResults(IDLE_CHECK_INTERVAL_MS,
                                      IDLE_SLEEP_TOLERANCE_MS) :
                  \E d \in {idleSleepDelay(r.err, r.slept)} :
                    /\ AmorIdlePass(s2, stability, amp, WL_NO_SHIELD,
                                    BurstMs + r.slept + d)
                    /\ slp' = Slept("idle", IDLE_CHECK_INTERVAL_MS, r, d)

\* the sleep at the end of an active pass that started at currentTime = now,
\* took `work` ms before the sleep and left lastSampleTime at `last`: the
\* outcomes, each the duration e of the whole pass and the sleep record
ActiveSleep(last, work) ==
  LET req == sleepTimeMs(now, last)
  IN IF req > 1
     THEN { [e   |-> work + r.slept + activeSleepDelay(req, r.err, r.slept),
             slp |-> Slept("active", req, r,
                           activeSleepDelay(req, r.err, r.slept))] :
            r \in SleepResults(req, ACTIVE_SLEEP_TOLERANCE_MS) }
     ELSE { [e |-> work, slp |-> NoSleep] }

\* activeStateLoop with its sleep, the admin check not due
SleepSample ==
  /\ ActiveTurn
  /\ ~AdminDue(now)
  /\ passes < MaxSleepPasses
  /\ UNCHANGED tx
  /\ \E amp \in NextSignals, work \in ActiveWork :
       \E o \in ActiveSleep(IF SampleDue(now) THEN now ELSE lastSampleTime,
                            work) :
         /\ AmorSamplePass(amp, o.e)
         /\ slp' = o.slp

\* activeStateLoop with its sleep, the admin check due: a check that returns
\* to IDLE returns before the sleep
SleepAdmin ==
  /\ ActiveTurn
  /\ AdminDue(now)
  /\ passes < MaxSleepPasses
  /\ UNCHANGED tx
  /\ \E amp \in NextSignals :
       \E s1 \in {AfterSample(amp)} :
         \E sd \in {calculateStddev(s1)} :
           \E status \in WlStatus, work \in ActiveWork :
             \E o \in IF AdminCheck([s |-> s1, radio |-> radioOn], status,
                                    sd, now).exit = "none"
                       THEN ActiveSleep(IF SampleDue(now) THEN now
                                        ELSE lastSampleTime, work)
                       ELSE { [e |-> work, slp |-> NoSleep] } :
               /\ AmorAdminPass(s1, sd, amp, status, o.e)
               /\ slp' = o.slp

SleepNext == SleepIdle \/ SleepSample \/ SleepAdmin

(***************************************************************************)
(* esp32_test (firmware/esp32_test/src/main.cpp): program constants        *)
(***************************************************************************)
THRESHOLD == 2200
SAMPLE_RATE_MS == 20
REFRACTORY_MS == 300
\* raw >= 4095 is taken for an artifact
ET_SATURATED == 4095
\* setup(): the delay(100) after Serial.begin
ET_SETUP_DELAY_MS == 100

(***************************************************************************)
(* Heartbeat: program constants                                            *)
(***************************************************************************)
SAMPLE_INTERVAL_MS == 20
MOVING_AVG_SAMPLES == 5
BASELINE_DECAY_INTERVAL == 150
MIN_SIGNAL_RANGE == 50
REFRACTORY_PERIOD_MS == 300
FLAT_SIGNAL_THRESHOLD == 5
FLAT_SAMPLE_LIMIT == 50
WIFI_CHECK_INTERVAL_MS == 5000
WIFI_TIMEOUT_MS == 30000
\* connectWiFi: the delay(100) of its wait loop; setup(): the delay(100)
\* after Serial.begin
WIFI_POLL_DELAY_MS == 100
HB_SETUP_DELAY_MS == 100
MS_PER_MINUTE == 60000
\* BASELINE_DECAY_RATE = 0.1 as the divisor 10, THRESHOLD_FRACTION = 0.6 as
\* the fraction 3/5
BASELINE_DECAY_DIVISOR == 10
THRESHOLD_FRACTION_NUM == 3
THRESHOLD_FRACTION_DEN == 5

(***************************************************************************)
(* Heartbeat: bounds and inputs of the model                               *)
(***************************************************************************)
\* passes of loop() in one run
MaxHBPasses == 92
\* changes of the raw reading in one run
MaxRawChanges == 6
\* duration of one pass of loop(), in ms: a sample is due in every second pass
HBPassMs == 10
\* the raw readings: finger off the sensor's peak, and on it
HBRaws == {1000, 3000}
\* the number of ticks the raw reading keeps a level once it has changed to it
HoldTicks == {1, 5, 10, 15}
\* millis() when setup() returns: soon after a quick connection, or shortly
\* before the first WiFi check falls due
HBBootTimes == {600, 4800}
\* milliseconds the clock can advance between two reads of millis() inside
\* detectBeat
HBJitter == {0, 1}

\* ticks in one run of the tick-by-tick specification of the whole pipeline
MaxSigTicks == 160
\* changes of the raw reading in one such run
MaxSigChanges == 4
\* its raw readings: finger off the peak, on it, and a level close to that one
SigRaws == {1000, 3000, 3100}
\* the ticks a reading holds its level there: a few ticks, or longer than the
\* flat-signal limit
SigHolds == {5, 15, 60}
\* the ticks the first reading can hold after setup(): longer than the
\* refractory period
SigStartHolds == {16}
\* millis() when setup() returns, in the tick-by-tick specifications
SigBootTimes == {600}
\* ticks in one run of the specification of the moving average
MaxMATicks == 6
\* its raw readings: the ends of the ADC range, and levels 1 and 200 apart
MARaws == {0, 1999, 2000, 2200, 4095}

\* ticks in one run of the specification of the flat-signal counter
MaxFlatTicks == 70
\* changes of the raw reading in one such run
MaxFlatChanges == 4
\* its raw readings: levels 1, 4 and 5 apart, on either side of
\* FLAT_SIGNAL_THRESHOLD
FlatRaws == {1995, 1999, 2000}
\* the ticks a reading holds its level there: one tick, a few, or longer than
\* the flat-signal limit
FlatHolds == {1, 3, 52}

\* (int) of an unsigned long, as in sendHeartbeatOSC((int)ibi)
ToInt32(x) == IF x > MaxInt31 THEN ((x - MaxInt31) - MaxInt31) - 2 ELSE x

(***************************************************************************)
(* Heartbeat: signal processing                                            *)
(***************************************************************************)
\* the static initialiser of `sensor`
SensorInitState ==
  [ rawSamples |-> [i \in 0..(MOVING_AVG_SAMPLES - 1) |-> 0],
    sampleIndex |-> 0,
    smoothedValue |-> 0,
    minValue |-> 0,
    maxValue |-> ADC_MAX,
    samplesSinceDecay |-> 0,
    aboveThreshold |-> FALSE,
    lastBeatTime |-> 0,
    lastIBI |-> 0,
    firstBeatDetected |-> FALSE,
    isConnected |-> FALSE,
    lastRawValue |-> 0,
    flatSampleCount |-> 0 ]

\* firstReading is analogRead(SENSOR_PIN), t is millis()
initializeSensor(sn, firstReading, t) ==
  [sn EXCEPT
     !.rawSamples = [i \in 0..(MOVING_AVG_SAMPLES - 1) |-> firstReading],
     !.smoothedValue = firstReading,
     !.minValue = firstReading,
     !.maxValue = firstReading,
     !.isConnected = TRUE,
     !.lastRawValue = firstReading,
     !.lastBeatTime = t]

\* updateMovingAverage that does not advance the write cursor
updateMovingAverage_StaleIndex(sn, rawValue) ==
  LET samples == [sn.rawSamples EXCEPT ![sn.sampleIndex] = rawValue]
  IN [sn EXCEPT
        !.rawSamples = samples,
        !.smoothedValue = SumFirst(samples, MOVING_AVG_SAMPLES) \div MOVING_AVG_SAMPLES]

\* updateMovingAverage that divides the sum by one less than the window length
updateMovingAverage_ShortDivisor(sn, rawValue) ==
  LET samples == [sn.rawSamples EXCEPT ![sn.sampleIndex] = rawValue]
  IN [sn EXCEPT
        !.rawSamples = samples,
        !.sampleIndex = (sn.sampleIndex + 1) % MOVING_AVG_SAMPLES,
        !.smoothedValue =
           SumFirst(samples, MOVING_AVG_SAMPLES) \div (MOVING_AVG_SAMPLES - 1)]

updateMovingAverage(sn, rawValue) ==
  LET samples == [sn.rawSamples EXCEPT ![sn.sampleIndex] = rawValue]
  IN [sn EXCEPT
        !.rawSamples = samples,
        !.sampleIndex = (sn.sampleIndex + 1) % MOVING_AVG_SAMPLES,
        !.smoothedValue = SumFirst(samples, MOVING_AVG_SAMPLES) \div MOVING_AVG_SAMPLES]

\* (int)(d * BASELINE_DECAY_RATE) for 0 <= d <= ADC_MAX: the float 0.1f lies
\* just above 1/10, so the product truncates to d div 10
DecayStep(d) == d \div BASELINE_DECAY_DIVISOR

\* (int)(r * THRESHOLD_FRACTION) for 0 <= r <= ADC_MAX: the float 0.6f lies
\* just above 3/5, so the product truncates to 3r div 5
ThresholdPart(r) == (r * THRESHOLD_FRACTION_NUM) \div THRESHOLD_FRACTION_DEN

\* updateBaseline without the instant expansion
updateBaseline_NoExpansion(sn) ==
  LET n == sn.samplesSinceDecay + 1
  IN IF n >= BASELINE_DECAY_INTERVAL
     THEN [sn EXCEPT
             !.minValue = sn.minValue + DecayStep(sn.smoothedValue - sn.minValue),
             !.maxValue = sn.maxValue - DecayStep(sn.maxValue - sn.smoothedValue),
             !.samplesSinceDecay = 0]
     ELSE [sn EXCEPT !.samplesSinceDecay = n]

\* updateBaseline that applies the decay at every call
updateBaseline_DecayEveryCall(sn) ==
  LET lo == IF sn.smoothedValue < sn.minValue THEN sn.smoothedValue ELSE sn.minValue
      hi == IF sn.smoothedValue > sn.maxValue THEN sn.smoothedValue ELSE sn.maxValue
      n == sn.samplesSinceDecay + 1
  IN [sn EXCEPT
        !.minValue = lo + DecayStep(sn.smoothedValue - lo),
        !.maxValue = hi - DecayStep(hi - sn.smoothedValue),
        !.samplesSinceDecay = IF n >= BASELINE_DECAY_INTERVAL THEN 0 ELSE n]

updateBaseline(sn) ==
  LET lo == IF sn.smoothedValue < sn.minValue THEN sn.smoothedValue ELSE sn.minValue
      hi == IF sn.smoothedValue > sn.maxValue THEN sn.smoothedValue ELSE sn.maxValue
      n == sn.samplesSinceDecay + 1
  IN IF n >= BASELINE_DECAY_INTERVAL
     THEN [sn EXCEPT
             !.minValue = lo + DecayStep(sn.smoothedValue - lo),
             !.maxValue = hi - DecayStep(hi - sn.smoothedValue),
             !.samplesSinceDecay = 0]
     ELSE [sn EXCEPT !.minValue = lo, !.maxValue = hi, !.samplesSinceDecay = n]

Abs(x) == IF x < 0 THEN -x ELSE x

\* checkDisconnection whose reconnection leaves firstBeatDetected as it was
checkDisconnection_KeepsFirstBeat(sn, rawValue, t) ==
  LET variance == Abs(rawValue - sn.lastRawValue)
      flat == IF variance < FLAT_SIGNAL_THRESHOLD THEN sn.flatSampleCount + 1 ELSE 0
      range == sn.maxValue - sn.minValue
      connected == IF flat >= FLAT_SAMPLE_LIMIT \/ range < MIN_SIGNAL_RANGE
                   THEN FALSE ELSE sn.isConnected
      s1 == [sn EXCEPT !.flatSampleCount = flat, !.isConnected = connected]
      s2 == IF ~connected /\ flat = 0 /\ range >= MIN_SIGNAL_RANGE
            THEN [s1 EXCEPT
                    !.isConnected = TRUE,
                    !.minValue = sn.smoothedValue,
                    !.maxValue = sn.smoothedValue,
                    !.lastBeatTime = t]
            ELSE s1
  IN [s2 EXCEPT !.lastRawValue = rawValue]

\* checkDisconnection that does not disconnect on a flat signal
checkDisconnection_NoFlatLimit(sn, rawValue, t) ==
  LET variance == Abs(rawValue - sn.lastRawValue)
      flat == IF variance < FLAT_SIGNAL_THRESHOLD THEN sn.flatSampleCount + 1 ELSE 0
      range == sn.maxValue - sn.minValue
      connected == IF range < MIN_SIGNAL_RANGE THEN FALSE ELSE sn.isConnected
      s1 == [sn EXCEPT !.flatSampleCount = flat, !.isConnected = connected]
      s2 == IF ~connected /\ flat = 0 /\ range >= MIN_SIGNAL_RANGE
            THEN [s1 EXCEPT
                    !.isConnected = TRUE,
                    !.minValue = sn.smoothedValue,
                    !.maxValue = sn.smoothedValue,
                    !.firstBeatDetected = FALSE,
                    !.lastBeatTime = t]
            ELSE s1
  IN [s2 EXCEPT !.lastRawValue = rawValue]

\* checkDisconnection that reconnects on the range alone
checkDisconnection_ReconnectsOnRange(sn, rawValue, t) ==
  LET variance == Abs(rawValue - sn.lastRawValue)
      flat == IF variance < FLAT_SIGNAL_THRESHOLD THEN sn.flatSampleCount + 1 ELSE 0
      range == sn.maxValue - sn.minValue
      connected == IF flat >= FLAT_SAMPLE_LIMIT \/ range < MIN_SIGNAL_RANGE
                   THEN FALSE ELSE sn.isConnected
      s1 == [sn EXCEPT !.flatSampleCount = flat, !.isConnected = connected]
      s2 == IF ~connected /\ range >= MIN_SIGNAL_RANGE
            THEN [s1 EXCEPT
                    !.isConnected = TRUE,
                    !.minValue = sn.smoothedValue,
                    !.maxValue = sn.smoothedValue,
                    !.firstBeatDetected = FALSE,
                    !.lastBeatTime = t]
            ELSE s1
  IN [s2 EXCEPT !.lastRawValue = rawValue]

\* checkDisconnection whose reconnection keeps lastBeatTime
checkDisconnection_KeepsBeatTime(sn, rawValue, t) ==
  LET variance == Abs(rawValue - sn.lastRawValue)
      flat == IF variance < FLAT_SIGNAL_THRESHOLD THEN sn.flatSampleCount + 1 ELSE 0
      range == sn.maxValue - sn.minValue
      connected == IF flat >= FLAT_SAMPLE_LIMIT \/ range < MIN_SIGNAL_RANGE
                   THEN FALSE ELSE sn.isConnected
      s1 == [sn EXCEPT !.flatSampleCount = flat, !.isConnected = connected]
      s2 == IF ~connected /\ flat = 0 /\ range >= MIN_SIGNAL_RANGE
            THEN [s1 EXCEPT
                    !.isConnected = TRUE,
                    !.minValue = sn.smoothedValue,
                    !.maxValue = sn.smoothedValue,
                    !.firstBeatDetected = FALSE]
            ELSE s1
  IN [s2 EXCEPT !.lastRawValue = rawValue]

\* checkDisconnection whose reconnection keeps the envelope
checkDisconnection_KeepsEnvelope(sn, rawValue, t) ==
  LET variance == Abs(rawValue - sn.lastRawValue)
      flat == IF variance < FLAT_SIGNAL_THRESHOLD THEN sn.flatSampleCount + 1 ELSE 0
      range == sn.maxValue - sn.minValue
      connected == IF flat >= FLAT_SAMPLE_LIMIT \/ range < MIN_SIGNAL_RANGE
                   THEN FALSE ELSE sn.isConnected
      s1 == [sn EXCEPT !.flatSampleCount = flat, !.isConnected = connected]
      s2 == IF ~connected /\ flat = 0 /\ range >= MIN_SIGNAL_RANGE
            THEN [s1 EXCEPT
                    !.isConnected = TRUE,
                    !.firstBeatDetected = FALSE,
                    !.lastBeatTime = t]
            ELSE s1
  IN [s2 EXCEPT !.lastRawValue = rawValue]

\* checkDisconnection that counts a change of exactly FLAT_SIGNAL_THRESHOLD
\* as flat
checkDisconnection_FlatInclusive(sn, rawValue, t) ==
  LET variance == Abs(rawValue - sn.lastRawValue)
      flat == IF variance <= FLAT_SIGNAL_THRESHOLD THEN sn.flatSampleCount + 1 ELSE 0
      range == sn.maxValue - sn.minValue
      connected == IF flat >= FLAT_SAMPLE_LIMIT \/ range < MIN_SIGNAL_RANGE
                   THEN FALSE ELSE sn.isConnected
      s1 == [sn EXCEPT !.flatSampleCount = flat, !.isConnected = connected]
      s2 == IF ~connected /\ flat = 0 /\ range >= MIN_SIGNAL_RANGE
            THEN [s1 EXCEPT
                    !.isConnected = TRUE,
                    !.minValue = sn.smoothedValue,
                    !.maxValue = sn.smoothedValue,
                    !.firstBeatDetected = FALSE,
                    !.lastBeatTime = t]
            ELSE s1
  IN [s2 EXCEPT !.lastRawValue = rawValue]

\* checkDisconnection whose reconnection also clears the aboveThreshold latch
checkDisconnection_ClearsLatch(sn, rawValue, t) ==
  LET variance == Abs(rawValue - sn.lastRawValue)
      flat == IF variance < FLAT_SIGNAL_THRESHOLD THEN sn.flatSampleCount + 1 ELSE 0
      range == sn.maxValue - sn.minValue
      connected == IF flat >= FLAT_SAMPLE_LIMIT \/ range < MIN_SIGNAL_RANGE
                   THEN FALSE ELSE sn.isConnected
      s1 == [sn EXCEPT !.flatSampleCount = flat, !.isConnected = connected]
      s2 == IF ~connected /\ flat = 0 /\ range >= MIN_SIGNAL_RANGE
            THEN [s1 EXCEPT
                    !.isConnected = TRUE,
                    !.minValue = sn.smoothedValue,
                    !.maxValue = sn.smoothedValue,
                    !.firstBeatDetected = FALSE,
                    !.aboveThreshold = FALSE,
                    !.lastBeatTime = t]
            ELSE s1
  IN [s2 EXCEPT !.lastRawValue = rawValue]

\* t is millis() at the reconnection
checkDisconnection(sn, rawValue, t) ==
  LET variance == Abs(rawValue - sn.lastRawValue)
      flat == IF variance < FLAT_SIGNAL_THRESHOLD THEN sn.flatSampleCount + 1 ELSE 0
      range == sn.maxValue - sn.minValue
      connected == IF flat >= FLAT_SAMPLE_LIMIT \/ range < MIN_SIGNAL_RANGE
                   THEN FALSE ELSE sn.isConnected
      s1 == [sn EXCEPT !.flatSampleCount = flat, !.isConnected = connected]
      s2 == IF ~connected /\ flat = 0 /\ range >= MIN_SIGNAL_RANGE
            THEN [s1 EXCEPT
                    !.isConnected = TRUE,
                    !.minValue = sn.smoothedValue,
                    !.maxValue = sn.smoothedValue,
                    !.firstBeatDetected = FALSE,
                    !.lastBeatTime = t]
            ELSE s1
  IN [s2 EXCEPT !.lastRawValue = rawValue]

Threshold(sn) == sn.minValue + ThresholdPart(sn.maxValue - sn.minValue)

\* the falling-edge test at the end of detectBeat
FallingEdge(sn) ==
  IF sn.smoothedValue < Threshold(sn) /\ sn.aboveThreshold
  THEN [sn EXCEPT !.aboveThreshold = FALSE]
  ELSE sn

\* the result of detectBeat when it accepts no edge in this tick
NoBeat(sn) == [s |-> sn, kind |-> "none", ibi |-> 0, arg |-> 0]

\* detectBeat without the connection check
detectBeat_NoConnCheck(sn, t, j1, j2) ==
  IF sn.smoothedValue >= Threshold(sn) /\ ~sn.aboveThreshold
  THEN IF Sub32(t, sn.lastBeatTime) < REFRACTORY_PERIOD_MS
       THEN NoBeat(sn)
       ELSE IF ~sn.firstBeatDetected
            THEN [ s |-> [sn EXCEPT !.aboveThreshold = TRUE,
                                    !.firstBeatDetected = TRUE,
                                    !.lastBeatTime = t + j1],
                   kind |-> "first", ibi |-> 0, arg |-> 0 ]
            ELSE LET ibi == Sub32(t + j1, sn.lastBeatTime)
                 IN [ s |-> FallingEdge([sn EXCEPT !.aboveThreshold = TRUE,
                                                   !.lastBeatTime = t + j1 + j2,
                                                   !.lastIBI = ibi]),
                      kind |-> "beat", ibi |-> ibi, arg |-> ToInt32(ibi) ]
  ELSE NoBeat(FallingEdge(sn))

\* detectBeat whose rejection restarts the refractory window
detectBeat_RejectRestartsWindow(sn, t, j1, j2) ==
  IF ~sn.isConnected THEN NoBeat(sn)
  ELSE IF sn.smoothedValue >= Threshold(sn) /\ ~sn.aboveThreshold
       THEN IF Sub32(t, sn.lastBeatTime) < REFRACTORY_PERIOD_MS
            THEN NoBeat([sn EXCEPT !.lastBeatTime = t])
            ELSE IF ~sn.firstBeatDetected
                 THEN [ s |-> [sn EXCEPT !.aboveThreshold = TRUE,
                                         !.firstBeatDetected = TRUE,
                                         !.lastBeatTime = t + j1],
                        kind |-> "first", ibi |-> 0, arg |-> 0 ]
                 ELSE LET ibi == Sub32(t + j1, sn.lastBeatTime)
                      IN [ s |-> FallingEdge([sn EXCEPT !.aboveThreshold = TRUE,
                                                        !.lastBeatTime = t + j1 + j2,
                                                        !.lastIBI = ibi]),
                           kind |-> "beat", ibi |-> ibi, arg |-> ToInt32(ibi) ]
       ELSE NoBeat(FallingEdge(sn))

\* detectBeat without the refractory check
detectBeat_NoGate(sn, t, j1, j2) ==
  IF ~sn.isConnected THEN NoBeat(sn)
  ELSE IF sn.smoothedValue >= Threshold(sn) /\ ~sn.aboveThreshold
       THEN IF ~sn.firstBeatDetected
            THEN [ s |-> [sn EXCEPT !.aboveThreshold = TRUE,
                                    !.firstBeatDetected = TRUE,
                                    !.lastBeatTime = t + j1],
                   kind |-> "first", ibi |-> 0, arg |-> 0 ]
            ELSE LET ibi == Sub32(t + j1, sn.lastBeatTime)
                 IN [ s |-> FallingEdge([sn EXCEPT !.aboveThreshold = TRUE,
                                                   !.lastBeatTime = t + j1 + j2,
                                                   !.lastIBI = ibi]),
                      kind |-> "beat", ibi |-> ibi, arg |-> ToInt32(ibi) ]
       ELSE NoBeat(FallingEdge(sn))

\* detectBeat that latches aboveThreshold before the refractory check
detectBeat_LatchFirst(sn, t, j1, j2) ==
  IF ~sn.isConnected THEN NoBeat(sn)
  ELSE IF sn.smoothedValue >= Threshold(sn) /\ ~sn.aboveThreshold
       THEN IF Sub32(t, sn.lastBeatTime) < REFRACTORY_PERIOD_MS
            THEN NoBeat([sn EXCEPT !.aboveThreshold = TRUE])
            ELSE IF ~sn.firstBeatDetected
                 THEN [ s |-> [sn EXCEPT !.aboveThreshold = TRUE,
                                         !.firstBeatDetected = TRUE,
                                         !.lastBeatTime = t + j1],
                        kind |-> "first", ibi |-> 0, arg |-> 0 ]
                 ELSE LET ibi == Sub32(t + j1, sn.lastBeatTime)
                      IN [ s |-> FallingEdge([sn EXCEPT !.aboveThreshold = TRUE,
                                                        !.lastBeatTime = t + j1 + j2,
                                                        !.lastIBI = ibi]),
                           kind |-> "beat", ibi |-> ibi, arg |-> ToInt32(ibi) ]
       ELSE NoBeat(FallingEdge(sn))

\* detectBeat.  t is millis() at the refractory check, t + j1 at the first
\* beat or at the IBI computation, t + j1 + j2 at the update of lastBeatTime.
\* The result holds the new sensor state, what was accepted ("none", "first",
\* "beat"), the IBI and the argument passed to sendHeartbeatOSC.
detectBeat(sn, t, j1, j2) ==
  IF ~sn.isConnected THEN NoBeat(sn)
  ELSE IF sn.smoothedValue >= Threshold(sn) /\ ~sn.aboveThreshold
       THEN IF Sub32(t, sn.lastBeatTime) < REFRACTORY_PERIOD_MS
            THEN NoBeat(sn)
            ELSE IF ~sn.firstBeatDetected
                 THEN [ s |-> [sn EXCEPT !.aboveThreshold = TRUE,
                                         !.firstBeatDetected = TRUE,
                                         !.lastBeatTime = t + j1],
                        kind |-> "first", ibi |-> 0, arg |-> 0 ]
                 ELSE LET ibi == Sub32(t + j1, sn.lastBeatTime)
                      IN [ s |-> FallingEdge([sn EXCEPT !.aboveThreshold = TRUE,
                                                        !.lastBeatTime = t + j1 + j2,
                                                        !.lastIBI = ibi]),
                           kind |-> "beat", ibi |-> ibi, arg |-> ToInt32(ibi) ]
       ELSE NoBeat(FallingEdge(sn))

\* Heartbeat checkWiFi: hs is the `state` struct, lastCheck the static
\* lastCheckTime, t millis(), status WiFi.status()
hbCheckWiFi(hs, lastCheck, t, status) ==
  IF Sub32(t, lastCheck) < WIFI_CHECK_INTERVAL_MS
  THEN [hs |-> hs, lastCheck |-> lastCheck]
  ELSE [hs |-> [hs EXCEPT !.wifiConnected = (status = WL_CONNECTED)],
        lastCheck |-> t]

(***************************************************************************)
(* Heartbeat: construction (static initialisers, then setup() with a       *)
(* successful connectWiFi) and loop()                                      *)
(***************************************************************************)
\* setup() has returned: connectWiFi, started at t, found the connection at
\* its first look
BootDone(t) ==
  [pc |-> "loop", startTime |-> t, testedAt |-> t, status |-> WL_CONNECTED,
   blinks |-> 0]

\* the esp32_test program after its setup(): the initialisers of its globals,
\* millis() after the delay(100), no pass of loop() yet
EtBoot ==
  [ lastAboveThreshold |-> FALSE, lastBeatTime |-> 0, now |-> ET_SETUP_DELAY_MS,
    raw |-> -1, prevRaw |-> -1, beat |-> FALSE, prevBeatTime |-> 0 ]

HBInitAt(firstReading, t) ==
  /\ sensor = initializeSensor(SensorInitState, firstReading, t)
  /\ hbState = [wifiConnected |-> TRUE, lastWiFiCheckTime |-> 0, loopCounter |-> 0]
  /\ hbNow = t
  /\ hbLastSampleTime = 0
  /\ hbLastCheckTime = 0
  /\ hbBeat = [kind |-> "none", ibi |-> 0, arg |-> 0, early |-> FALSE]
  /\ hbEdges = [above |-> FALSE, riseTime |-> -1,
                prev |-> -1, last |-> -1, prevRise |-> -1, lastRise |-> -1,
                prevKind |-> "none", lastKind |-> "none"]
  /\ hbEnv = [raw |-> firstReading, hold |-> 0, rawChanges |-> 0, passes |-> 0]
  /\ hbHist = [fed |-> [i \in 1..MOVING_AVG_SAMPLES |-> firstReading],
               reconnectAt |-> -1]
  /\ boot = BootDone(t)
  /\ et = EtBoot

HBInit == \E firstReading \in HBRaws, t \in HBBootTimes : HBInitAt(firstReading, t)

\* the readings analogRead(SENSOR_PIN) can return in the next tick, each with
\* the number of further ticks the reading keeps that level: the level holds
\* for its time, then changes
HBNextRaws ==
  IF hbEnv.hold > 0 THEN {[raw |-> hbEnv.raw, hold |-> hbEnv.hold - 1]}
  ELSE IF hbEnv.rawChanges < MaxRawChanges
       THEN {[raw |-> r, hold |-> h - 1] : r \in HBRaws \ {hbEnv.raw}, h \in HoldTicks}
       ELSE {[raw |-> hbEnv.raw, hold |-> 0]}

HBSampleDue == Sub32(hbNow, hbLastSampleTime) >= SAMPLE_INTERVAL_MS

HBWiFiDue == Sub32(hbNow, hbLastCheckTime) >= WIFI_CHECK_INTERVAL_MS

\* checkWiFi reads WiFi.status() only when the check is due
HBStatuses == IF HBWiFiDue THEN {WL_CONNECTED, WL_DISCONNECTED} ELSE {WL_CONNECTED}

\* the stages before detectBeat with updateBaseline ahead of updateMovingAverage
BeforeDetect_BaselineFirst(sn, rawValue, t) ==
  checkDisconnection(updateMovingAverage(updateBaseline(sn), rawValue), rawValue, t)

\* the stages of a tick before detectBeat
BeforeDetect(sn, rawValue, t) ==
  checkDisconnection(updateBaseline(updateMovingAverage(sn, rawValue)), rawValue, t)

\* a rising-edge candidate in state sn at time t
Candidate(sn) ==
  sn.isConnected /\ sn.smoothedValue >= Threshold(sn) /\ ~sn.aboveThreshold

\* the clock moves inside detectBeat only where detectBeat reads it again
JitterFor(sn, t) ==
  IF Candidate(sn) /\ Sub32(t, sn.lastBeatTime) >= REFRACTORY_PERIOD_MS
  THEN HBJitter ELSE {0}

\* a pass of loop(), with reading.raw the reading of the sensor during the pass and the
\* ticks it will hold
HBPass(reading, status) ==
  /\ hbEnv.passes < MaxHBPasses
  /\ hbEnv' = [raw |-> reading.raw,
               hold |-> reading.hold,
               rawChanges |-> IF reading.raw = hbEnv.raw THEN hbEnv.rawChanges
                              ELSE hbEnv.rawChanges + 1,
               passes |-> hbEnv.passes + 1]
  /\ hbNow' = hbNow + HBPassMs
  /\ hbLastCheckTime' = hbCheckWiFi(hbState, hbLastCheckTime, hbNow, status).lastCheck
  /\ UNCHANGED << amorVars, hbHist, boot, et >>

\* loop() when a sample is due: checkWiFi, then the pipeline
\* updateMovingAverage -> updateBaseline -> checkDisconnection -> detectBeat
HBSampleTick(mid, reading, status, j1, j2) ==
  /\ HBPass(reading, status)
  /\ \E r \in {detectBeat(mid, hbNow, j1, j2)} :
       LET early == Candidate(mid)
                    /\ Sub32(hbNow, mid.lastBeatTime) < REFRACTORY_PERIOD_MS
           above == mid.isConnected /\ mid.smoothedValue >= Threshold(mid)
           rise == IF above /\ ~hbEdges.above THEN hbNow ELSE hbEdges.riseTime
       IN /\ sensor' = r.s
          /\ hbBeat' = [kind |-> r.kind, ibi |-> r.ibi, arg |-> r.arg,
                        early |-> early]
          /\ hbEdges' =
               IF r.kind = "none"
               THEN [hbEdges EXCEPT !.above = above, !.riseTime = rise]
               ELSE [above |-> above, riseTime |-> rise,
                     prev |-> hbEdges.last, last |-> hbNow,
                     prevRise |-> hbEdges.lastRise, lastRise |-> rise,
                     prevKind |-> hbEdges.lastKind, lastKind |-> r.kind]
  /\ hbState' = [hbCheckWiFi(hbState, hbLastCheckTime, hbNow, status).hs
                   EXCEPT !.loopCounter = @ + 1]
  /\ hbLastSampleTime' = hbNow

HBSample ==
  /\ HBSampleDue
  /\ \E reading \in HBNextRaws :
       \E mid \in {BeforeDetect(sensor, reading.raw, hbNow)} :
         \E j1 \in JitterFor(mid, hbNow), j2 \in JitterFor(mid, hbNow) :
           \E status \in HBStatuses :
             HBSampleTick(mid, reading, status, j1, j2)

\* loop() when no sample is due: checkWiFi only
HBWait ==
  /\ ~HBSampleDue
  /\ \E status \in HBStatuses :
       /\ HBPass([raw |-> hbEnv.raw, hold |-> hbEnv.hold], status)
       /\ hbState' = hbCheckWiFi(hbState, hbLastCheckTime, hbNow, status).hs
       /\ hbBeat' = [kind |-> "none", ibi |-> 0, arg |-> 0, early |-> FALSE]
       /\ UNCHANGED << sensor, hbLastSampleTime, hbEdges >>

HBNext == HBSample \/ HBWait

(***************************************************************************)
(* Heartbeat: loop() tick by tick, a sample due in every pass              *)
(***************************************************************************)
\* checkDisconnection: flatSampleCount after the variance test
FlatCount(sn, rawValue) ==
  IF Abs(rawValue - sn.lastRawValue) < FLAT_SIGNAL_THRESHOLD
  THEN sn.flatSampleCount + 1 ELSE 0

\* checkDisconnection: range, of the envelope as updateBaseline left it
SignalRange(sn) == sn.maxValue - sn.minValue

\* checkDisconnection: the disconnection test
Disconnects(sn, rawValue) ==
  FlatCount(sn, rawValue) >= FLAT_SAMPLE_LIMIT \/ SignalRange(sn) < MIN_SIGNAL_RANGE

\* checkDisconnection: the reconnection test, after the disconnection test
Reconnects(sn, rawValue) ==
  /\ ~(IF Disconnects(sn, rawValue) THEN FALSE ELSE sn.isConnected)
  /\ FlatCount(sn, rawValue) = 0
  /\ SignalRange(sn) >= MIN_SIGNAL_RANGE

\* the stages of a tick before checkDisconnection
BeforeCheck(sn, rawValue) == updateBaseline(updateMovingAverage(sn, rawValue))

\* a pass of loop() that starts SAMPLE_INTERVAL_MS after the last one, so that
\* a sample is due: checkWiFi, then the pipeline updateMovingAverage ->
\* updateBaseline -> checkDisconnection -> detectBeat, the clock not moving
\* inside detectBeat
HBTick(reading, status, maxTicks) ==
  /\ hbEnv.passes < maxTicks
  /\ HBSampleDue
  /\ hbEnv' = [raw |-> reading.raw,
               hold |-> reading.hold,
               rawChanges |-> IF reading.raw = hbEnv.raw THEN hbEnv.rawChanges
                              ELSE hbEnv.rawChanges + 1,
               passes |-> hbEnv.passes + 1]
  /\ hbNow' = hbNow + SAMPLE_INTERVAL_MS
  /\ hbLastCheckTime' = hbCheckWiFi(hbState, hbLastCheckTime, hbNow, status).lastCheck
  /\ hbState' = [hbCheckWiFi(hbState, hbLastCheckTime, hbNow, status).hs
                   EXCEPT !.loopCounter = @ + 1]
  /\ hbLastSampleTime' = hbNow
  /\ \E mid \in {BeforeDetect(sensor, reading.raw, hbNow)} :
       \E r \in {detectBeat(mid, hbNow, 0, 0)} :
         LET early == Candidate(mid)
                      /\ Sub32(hbNow, mid.lastBeatTime) < REFRACTORY_PERIOD_MS
             above == mid.isConnected /\ mid.smoothedValue >= Threshold(mid)
             rise == IF above /\ ~hbEdges.above THEN hbNow ELSE hbEdges.riseTime
         IN /\ sensor' = r.s
            /\ hbBeat' = [kind |-> r.kind, ibi |-> r.ibi, arg |-> r.arg,
                          early |-> early]
            /\ hbEdges' =
                 IF r.kind = "none"
                 THEN [hbEdges EXCEPT !.above = above, !.riseTime = rise]
                 ELSE [above |-> above, riseTime |-> rise,
                       prev |-> hbEdges.last, last |-> hbNow,
                       prevRise |-> hbEdges.lastRise, lastRise |-> rise,
                       prevKind |-> hbEdges.lastKind, lastKind |-> r.kind]
  /\ hbHist' = [fed |-> Tail(hbHist.fed) \o << reading.raw >>,
                reconnectAt |->
                  IF Reconnects(BeforeCheck(sensor, reading.raw), reading.raw)
                  THEN hbNow ELSE hbHist.reconnectAt]
  /\ UNCHANGED << amorVars, boot, et >>

\* the readings of the next tick, each with the further ticks it holds: the
\* level holds for its time, then changes; the first reading after setup() may
\* also hold
SigNextRaws ==
  IF hbEnv.hold > 0 THEN {[raw |-> hbEnv.raw, hold |-> hbEnv.hold - 1]}
  ELSE IF hbEnv.rawChanges < MaxSigChanges
       THEN {[raw |-> r, hold |-> h - 1] : r \in SigRaws \ {hbEnv.raw}, h \in SigHolds}
            \cup (IF hbEnv.passes = 0
                  THEN {[raw |-> hbEnv.raw, hold |-> h - 1] : h \in SigStartHolds}
                  ELSE {})
       ELSE {[raw |-> hbEnv.raw, hold |-> 0]}

SigTick ==
  \E reading \in SigNextRaws, status \in HBStatuses :
    HBTick(reading, status, MaxSigTicks)

\* a tick with any reading
MATick ==
  \E rawValue \in MARaws, status \in HBStatuses :
    HBTick([raw |-> rawValue, hold |-> 0], status, MaxMATicks)

(***************************************************************************)
\* the readings of the next tick in a run on the flat-signal counter, each
\* with the further ticks it holds; the first reading after setup() may also
\* hold
FlatNextRaws ==
  IF hbEnv.hold > 0 THEN {[raw |-> hbEnv.raw, hold |-> hbEnv.hold - 1]}
  ELSE IF hbEnv.rawChanges < MaxFlatChanges
       THEN {[raw |-> r, hold |-> h - 1] : r \in FlatRaws \ {hbEnv.raw}, h \in FlatHolds}
            \cup (IF hbEnv.passes = 0
                  THEN {[raw |-> hbEnv.raw, hold |-> h - 1] : h \in FlatHolds}
                  ELSE {})
       ELSE {[raw |-> hbEnv.raw, hold |-> 0]}

\* a tick of such a run
FlatTick ==
  \E reading \in FlatNextRaws, status \in HBStatuses :
    HBTick(reading, status, MaxFlatTicks)

(***************************************************************************)
(* Heartbeat: setup()                                                      *)
(***************************************************************************)
\* ticks of loop() in one run of SpecBoot after setup() has returned
MaxBootTicks == 3
\* turns of the error blink followed in one run
MaxErrorBlinks == 3
\* what one turn of the wait loop of connectWiFi takes: its delay(100), or
\* that with Serial and WiFi work on top
BootPollMs == {WIFI_POLL_DELAY_MS, WIFI_POLL_DELAY_MS + 30}
\* the readings of the sensor in SpecBoot
BootRaws == {1000, 3000}

\* the static initialisers, and setup() up to the first test of the wait
\* loop of connectWiFi
BootInit ==
  /\ sensor = SensorInitState
  /\ hbState = [wifiConnected |-> FALSE, lastWiFiCheckTime |-> 0, loopCounter |-> 0]
  /\ hbNow = HB_SETUP_DELAY_MS
  /\ hbLastSampleTime = 0
  /\ hbLastCheckTime = 0
  /\ hbBeat = [kind |-> "none", ibi |-> 0, arg |-> 0, early |-> FALSE]
  /\ hbEdges = [above |-> FALSE, riseTime |-> -1,
                prev |-> -1, last |-> -1, prevRise |-> -1, lastRise |-> -1,
                prevKind |-> "none", lastKind |-> "none"]
  /\ hbEnv = [raw |-> 0, hold |-> 0, rawChanges |-> 0, passes |-> 0]
  /\ hbHist = [fed |-> [i \in 1..MOVING_AVG_SAMPLES |-> 0], reconnectAt |-> -1]
  /\ boot = [pc |-> "connecting", startTime |-> HB_SETUP_DELAY_MS,
             testedAt |-> HB_SETUP_DELAY_MS, status |-> WL_IDLE_STATUS,
             blinks |-> 0]
  /\ et = EtBoot

\* one test of the wait loop of connectWiFi after which setup() carries on
\* without WiFi when the time is up
connectWiFiTurn_CarriesOn(startTime, t, status) ==
  IF status = WL_CONNECTED THEN "loop"
  ELSE IF Sub32(t, startTime) >= WIFI_TIMEOUT_MS THEN "loop"
  ELSE "connecting"

\* one test of the wait loop of connectWiFi, at millis() = t with WiFi.status()
\* = status: "loop" when connectWiFi returns true and setup() runs on to its
\* end, "error" when it returns false and setup() blinks for ever,
\* "connecting" when it delays and looks again
connectWiFiTurn(startTime, t, status) ==
  IF status = WL_CONNECTED THEN "loop"
  ELSE IF Sub32(t, startTime) >= WIFI_TIMEOUT_MS THEN "error"
  ELSE "connecting"

\* setup() inside connectWiFi: one turn of the wait loop, and on its return
\* the rest of setup(): the error blink, or initializeSensor
SetupConnect ==
  /\ boot.pc = "connecting"
  /\ \E status \in {WL_CONNECTED, WL_IDLE_STATUS, WL_DISCONNECTED},
        d \in BootPollMs, firstReading \in BootRaws :
       \E pc \in {connectWiFiTurn(boot.startTime, hbNow, status)} :
         /\ boot' = [boot EXCEPT !.pc = pc, !.status = status,
                                 !.testedAt = hbNow]
         /\ hbNow' = IF pc = "connecting" THEN hbNow + d ELSE hbNow
         /\ hbState' = [hbState EXCEPT !.wifiConnected = (status = WL_CONNECTED)]
         /\ IF pc = "loop"
            THEN /\ sensor' = initializeSensor(sensor, firstReading, hbNow)
                 /\ hbEnv' = [hbEnv EXCEPT !.raw = firstReading]
                 /\ hbHist' = [hbHist EXCEPT
                                 !.fed = [i \in 1..MOVING_AVG_SAMPLES |-> firstReading]]
            ELSE UNCHANGED << sensor, hbEnv, hbHist >>
  /\ UNCHANGED << amorVars, hbLastSampleTime, hbLastCheckTime, hbBeat, hbEdges,
                  et >>

\* the error state of setup(): one turn of `while (true)`
ErrorBlink ==
  /\ boot.pc = "error"
  /\ boot.blinks < MaxErrorBlinks
  /\ boot' = [boot EXCEPT !.blinks = @ + 1]
  /\ hbNow' = hbNow + WIFI_POLL_DELAY_MS
  /\ UNCHANGED << amorVars, sensor, hbState, hbLastSampleTime, hbLastCheckTime,
                  hbBeat, hbEdges, hbEnv, hbHist, et >>

\* loop(), once setup() has returned
BootTick ==
  /\ boot.pc = "loop"
  /\ \E rawValue \in BootRaws, status \in HBStatuses :
       HBTick([raw |-> rawValue, hold |-> 0], status, MaxBootTicks)

BootNext == SetupConnect \/ ErrorBlink \/ BootTick

(***************************************************************************)
(* esp32_test: loop()                                                      *)
(***************************************************************************)
\* millis() up to which a run of SpecEt starts a pass of loop()
MaxEtMillis == 1000
\* the readings of the sensor: at THRESHOLD, just above it, the highest
\* reading that is not saturated, and the saturated one
EtRaws == {THRESHOLD, THRESHOLD + 1, ET_SATURATED - 1, ET_SATURATED}
\* milliseconds between the two reads of millis() on lines 43 and 45; a pass
\* takes its delay(20) and, when it reports a beat, this on top
EtLag == {0, 1}

\* loop() with a refractory test that lets a beat pass at exactly
\* REFRACTORY_MS
etLoop_RefractoryInclusive(e, raw, lag) ==
  IF raw >= ET_SATURATED
  THEN [lastAboveThreshold |-> FALSE, lastBeatTime |-> e.lastBeatTime,
        beat |-> FALSE]
  ELSE LET currentlyAbove == raw > THRESHOLD
           accept == /\ currentlyAbove
                     /\ ~e.lastAboveThreshold
                     /\ Sub32(e.now, e.lastBeatTime) >= REFRACTORY_MS
       IN [lastAboveThreshold |-> currentlyAbove,
           lastBeatTime |-> IF accept THEN e.now + lag ELSE e.lastBeatTime,
           beat |-> accept]

\* loop() of esp32_test on the globals held in e, millis() being e.now at the
\* tests and e.now + lag at the assignment of line 45: the globals after the
\* pass, and whether "BEAT!" was printed
etLoop(e, raw, lag) ==
  IF raw >= ET_SATURATED
  THEN [lastAboveThreshold |-> FALSE, lastBeatTime |-> e.lastBeatTime,
        beat |-> FALSE]
  ELSE LET currentlyAbove == raw > THRESHOLD
           accept == /\ currentlyAbove
                     /\ ~e.lastAboveThreshold
                     /\ Sub32(e.now, e.lastBeatTime) > REFRACTORY_MS
       IN [lastAboveThreshold |-> currentlyAbove,
           lastBeatTime |-> IF accept THEN e.now + lag ELSE e.lastBeatTime,
           beat |-> accept]

\* one pass of loop() of esp32_test
EtPass ==
  /\ et.now <= MaxEtMillis
  /\ \E raw \in EtRaws, lag \in EtLag :
       \E o \in {etLoop(et, raw, lag)} :
         /\ o.beat \/ lag = 0
         /\ et' = [ lastAboveThreshold |-> o.lastAboveThreshold,
                    lastBeatTime |-> o.lastBeatTime,
                    now |-> et.now + SAMPLE_RATE_MS + lag,
                    raw |-> raw,
                    prevRaw |-> et.raw,
                    beat |-> o.beat,
                    prevBeatTime |-> et.lastBeatTime ]
  /\ UNCHANGED << amorVars, sensor, hbState, hbNow, hbLastSampleTime,
                  hbLastCheckTime, hbBeat, hbEdges, hbEnv, hbHist, boot >>

(***************************************************************************)
(* Heartbeat: updateBaseline called with the smoothed value held            *)
(***************************************************************************)
\* the sensor state after the ticks that read raws, the first at time t
\* (the state after each tick is computed before the next tick is applied)
RECURSIVE RunTicks(_, _, _)
RunTicks(sn, raws, t) ==
  IF raws = << >> THEN sn
  ELSE CHOOSE end \in
         { RunTicks(next, Tail(raws), t + SAMPLE_INTERVAL_MS) :
           next \in {detectBeat(BeforeDetect(sn, Head(raws), t), t, 0, 0).s} } :
         TRUE

\* n copies of rawValue
Held(rawValue, n) == [i \in 1..n |-> rawValue]

\* readings since setup() that leave the smoothed value at 2000: the first is
\* the reading of initializeSensor.  They leave the envelope at 1995..2005, at
\* 0..4095, and, reseeded by a reconnection, at 2000..2160 and at 1240..2040.
BLHistories ==
  { << 1995, 2045, 1970 >>,
    << 2000 >> \o Held(0, MOVING_AVG_SAMPLES) \o Held(ADC_MAX, MOVING_AVG_SAMPLES)
               \o Held(2000, MOVING_AVG_SAMPLES),
    << 2000 >> \o Held(2200, MOVING_AVG_SAMPLES) \o Held(2000, MOVING_AVG_SAMPLES),
    << 1000 >> \o Held(1000, MOVING_AVG_SAMPLES - 1) \o << 2200, 2000, 2000, 2000, 2000, 2000 >> }

\* the state after setup() at time t and the ticks that read Tail(raws)
BLInitAt(raws, t) ==
  LET n == Len(raws) - 1
      end == t + n * SAMPLE_INTERVAL_MS
  IN /\ sensor = RunTicks(initializeSensor(SensorInitState, Head(raws), t), Tail(raws), t)
     /\ hbState = [wifiConnected |-> TRUE, lastWiFiCheckTime |-> 0, loopCounter |-> n]
     /\ hbNow = end
     /\ hbLastSampleTime = end - SAMPLE_INTERVAL_MS
     /\ hbLastCheckTime = 0
     /\ hbBeat = [kind |-> "none", ibi |-> 0, arg |-> 0, early |-> FALSE]
     /\ hbEdges = [above |-> FALSE, riseTime |-> -1,
                   prev |-> -1, last |-> -1, prevRise |-> -1, lastRise |-> -1,
                   prevKind |-> "none", lastKind |-> "none"]
     /\ hbEnv = [raw |-> raws[Len(raws)], hold |-> 0, rawChanges |-> 0, passes |-> n]
     /\ hbHist = [fed |-> Held(raws[Len(raws)], MOVING_AVG_SAMPLES), reconnectAt |-> -1]
     /\ boot = BootDone(t)
     /\ et = EtBoot

\* one call of updateBaseline, smoothedValue as the last call left it
BLUpdate ==
  /\ sensor' = updateBaseline(sensor)
  /\ UNCHANGED << amorVars, hbState, hbNow, hbLastSampleTime, hbLastCheckTime,
                  hbBeat, hbEdges, hbEnv, hbHist, boot, et >>

(***************************************************************************)
(* The interval computations on the full 32-bit clock.  An `unsigned long` *)
(* u is held as u when u <= MaxInt31 and as u - 2^32 otherwise (the value  *)
(* `(int)u` has), so that every value fits a 32-bit signed integer.        *)
(***************************************************************************)
MinInt32 == (-MaxInt31) - 1

\* unsigned a - b
U32Sub(a, b) ==
  IF (a >= 0) = (b >= 0) THEN a - b
  ELSE IF a >= 0
       THEN LET r == ((a - MaxInt31) - 1) - b
            IN IF r < 0 THEN a - b ELSE (r - MaxInt31) - 1
       ELSE LET r == ((a + MaxInt31) + 1) - b
            IN IF r >= 0 THEN a - b ELSE (r + MaxInt31) + 1

\* unsigned a + b
U32Add(a, b) == U32Sub(a, U32Sub(0, b))

\* unsigned a < b
U32Lt(a, b) == IF (a >= 0) = (b >= 0) THEN a < b ELSE a >= 0

\* stored timestamps: 0, 1000, 2^31 - 1, 2^31, and 310000, 20, 10 and 1 ms
\* before the clock wraps
ClockStamps == {0, 1000, MaxInt31, MinInt32, -310000, -20, -10, -1}
\* true elapsed times: around each interval of the program, 2^31 - 1, 2^31
\* and 2^32 - 1
ClockElapsed ==
  {0, 1, 5, 19, 20, 299, 300, 309999, 310000, MaxInt31, MinInt32, -1}

\* Heartbeat detectBeat: the refractory test rejects the edge
RefractoryRejects(currentTime, lastBeatTime) ==
  U32Lt(U32Sub(currentTime, lastBeatTime), REFRACTORY_PERIOD_MS)

\* Heartbeat detectBeat: the argument of sendHeartbeatOSC, (int)ibi
EmittedIBI(currentTime, lastBeatTime) == U32Sub(currentTime, lastBeatTime)

\* Amor samplePPG: the sample is due
SampleDueAt(currentTime, last) ==
  ~U32Lt(U32Sub(currentTime, last), AMOR_SAMPLE_INTERVAL_MS)

\* Amor activeStateLoop: the admin check is due
AdminDueAt(currentTime, last) ==
  ~U32Lt(U32Sub(currentTime, last), WIFI_ADMIN_CHECK_INTERVAL_MS)

\* Amor activeStateLoop, a poor admin check: poorSignalStartTime after the
\* test for 0, and the timeout test
PoorStartAt(currentTime, poorSignalStartTime) ==
  IF poorSignalStartTime = 0 THEN currentTime ELSE poorSignalStartTime

PoorTimedOutAt(currentTime, poorSignalStartTime) ==
  ~U32Lt(U32Sub(currentTime, PoorStartAt(currentTime, poorSignalStartTime)),
         POOR_SIGNAL_GRACE_PERIOD_MS + SUSTAIN_TIMEOUT_MS)

\* Amor activeStateLoop: sleepTimeMs, 0 when currentTime is not before
\* nextSampleTime
SleepTimeAt(currentTime, last) ==
  LET next == U32Add(last, AMOR_SAMPLE_INTERVAL_MS)
  IN IF U32Lt(currentTime, next) THEN U32Sub(next, currentTime) ELSE 0

InitClock ==
  /\ AmorBoot /\ signal = 0 /\ wdt = WdtBoot /\ tx = TxBoot /\ hy = HyBoot
  /\ HBInitAt(1000, 600)
  /\ \E last \in ClockStamps, d \in ClockElapsed :
       clk = [ last |-> last, d |-> d, now |-> U32Add(last, d), op |-> "none",
               flag |-> FALSE, val |-> 0 ]

ClockFlag(op, f) ==
  /\ clk' = [clk EXCEPT !.op = op, !.flag = f]
  /\ UNCHANGED << state, lastSampleTime, lastWiFiAdminCheckTime, now, radioOn,
                  lastOp, idleChecks, poorRunStart, downChecks, signal,
                  signalChanged, passes, stalls, slp, wdt, hy, tx, hbVars >>

ClockVal(op, v) ==
  /\ clk' = [clk EXCEPT !.op = op, !.val = v]
  /\ UNCHANGED << state, lastSampleTime, lastWiFiAdminCheckTime, now, radioOn,
                  lastOp, idleChecks, poorRunStart, downChecks, signal,
                  signalChanged, passes, stalls, slp, wdt, hy, tx, hbVars >>

\* detectBeat on a rising edge: the refractory test
ClockRefractory ==
  /\ clk.op = "none"
  /\ ClockFlag("refractory", RefractoryRejects(clk.now, clk.last))

\* detectBeat on an accepted edge: the IBI
ClockIBI ==
  /\ clk.op = "none"
  /\ ~RefractoryRejects(clk.now, clk.last)
  /\ ClockVal("ibi", EmittedIBI(clk.now, clk.last))

ClockSampleDue ==
  /\ clk.op = "none"
  /\ ClockFlag("sampleDue", SampleDueAt(clk.now, clk.last))

ClockAdminDue ==
  /\ clk.op = "none"
  /\ ClockFlag("adminDue", AdminDueAt(clk.now, clk.last))

ClockPoorTimeout ==
  /\ clk.op = "none"
  /\ ClockFlag("poorTimeout", PoorTimedOutAt(clk.now, clk.last))

\* the sleep computation runs after samplePPG(): no sample is due
ClockSleep ==
  /\ clk.op = "none"
  /\ ~SampleDueAt(clk.now, clk.last)
  /\ ClockVal("sleep", SleepTimeAt(clk.now, clk.last))

ClockNext ==
  \/ ClockRefractory \/ ClockIBI \/ ClockSampleDue \/ ClockAdminDue
  \/ ClockPoorTimeout \/ ClockSleep

(***************************************************************************)
(* Amor: the watchdog.  loop() without its data: what a signal-quality     *)
(* check finds is an input of the pass, the clock is kept as the time      *)
(* since the last admin check, up to one admin interval.                   *)
(***************************************************************************)
\* duration of a pass
WdtElapse == {0, 1000, 3000}

WdtAge(t) ==
  IF t < WIFI_ADMIN_CHECK_INTERVAL_MS THEN t ELSE WIFI_ADMIN_CHECK_INTERVAL_MS

\* enterActiveState on the control state: setupWiFi ends with
\* lastWiFiAdminCheckTime = millis()
wdtEnterActive(w, status) ==
  LET connected == (status = WL_CONNECTED)
  IN [w EXCEPT !.s.powerState = POWER_STATE_ACTIVE,
               !.s.wifiConnected = connected,
               !.s.wifiRetryCount = IF connected THEN 0 ELSE 1,
               !.radio = TRUE,
               !.sinceAdmin = 0]

\* enterIdleState on the control state
wdtEnterIdle(w) ==
  [w EXCEPT !.s.powerState = POWER_STATE_IDLE,
            !.s.wifiRetryCount = 0,
            !.s.wifiConnected = FALSE,
            !.radio = IF w.s.wifiConnected THEN FALSE ELSE @]

\* idleStateLoop that leaves the watchdog alone
wdtIdleLoop_NoReset(w, good, status) ==
  LET w1 == [w EXCEPT !.op = "idle", !.reset = FALSE]
  IN IF good THEN wdtEnterActive(w1, status) ELSE w1

\* idleStateLoop: the watchdog reset, then the check; good is signalGood
wdtIdleLoop(w, good, status) ==
  LET w1 == [w EXCEPT !.op = "idle", !.reset = TRUE]
  IN IF good THEN wdtEnterActive(w1, status) ELSE w1

\* activeStateLoop with the admin check due: checkWiFi, the retry limit (a
\* return before the watchdog reset), the reset, the sustain timer; timedOut
\* is the outcome of the poor-signal timeout test
wdtAdminCheck(w, status, timedOut) ==
  LET w1 == checkWiFi([w EXCEPT !.sinceAdmin = 0, !.reset = FALSE], status)
  IN IF RetryLimitExceeded(w1.s)
     THEN [wdtEnterIdle(w1) EXCEPT !.op = "retry"]
     ELSE IF timedOut
          THEN [wdtEnterIdle(w1) EXCEPT !.op = "poor", !.reset = TRUE]
          ELSE [w1 EXCEPT !.op = "admin", !.reset = TRUE]

WdtKeep ==
  UNCHANGED << state, lastSampleTime, lastWiFiAdminCheckTime, now, radioOn,
               lastOp, idleChecks, poorRunStart, downChecks, signal,
               signalChanged, passes, stalls, slp, clk, tx, hbVars >>

WdtIdle ==
  /\ wdt.s.powerState = POWER_STATE_IDLE
  /\ \E good \in BOOLEAN, status \in WlStatus :
       wdt' = wdtIdleLoop(wdt, good, status)
  /\ WdtKeep
  /\ UNCHANGED hy

\* activeStateLoop, the admin check not due: no watchdog reset
WdtSample ==
  /\ wdt.s.powerState # POWER_STATE_IDLE
  /\ wdt.sinceAdmin < WIFI_ADMIN_CHECK_INTERVAL_MS
  /\ \E e \in WdtElapse :
       wdt' = [wdt EXCEPT !.op = "sample", !.reset = FALSE,
                          !.sinceAdmin = WdtAge(@ + e)]
  /\ WdtKeep
  /\ UNCHANGED hy

WdtAdmin ==
  /\ wdt.s.powerState # POWER_STATE_IDLE
  /\ wdt.sinceAdmin >= WIFI_ADMIN_CHECK_INTERVAL_MS
  /\ \E status \in WlStatus, timedOut \in BOOLEAN, e \in WdtElapse :
       \E w \in {wdtAdminCheck(wdt, status, timedOut)} :
         wdt' = [w EXCEPT !.sinceAdmin =
                            IF w.s.powerState = POWER_STATE_IDLE THEN 0
                            ELSE WdtAge(e)]
  /\ WdtKeep
  /\ UNCHANGED hy

WdtNext == WdtIdle \/ WdtSample \/ WdtAdmin

(***************************************************************************)
(* Amor: the two thresholds.  The control flow of loop() as above, with    *)
(* what its signal-quality checks compute from the deviation they measure; *)
(* the measured deviation is an input of the pass, the poor-signal timer   *)
(* is kept as the time since poorSignalStartTime was set.                  *)
(***************************************************************************)
\* the deviations a check measures: just above the trigger threshold, and at
\* the sustain threshold
HyStddevs ==
  {SIGNAL_QUALITY_THRESHOLD_TRIGGER + 1, SIGNAL_QUALITY_THRESHOLD_SUSTAIN}
\* duration of an active pass
HyElapse == {1500, 3000}
\* what WiFi.status() reports to a pass: connected, a status that counts as
\* a retry, one that does not
HyStatuses == {WL_CONNECTED, WL_DISCONNECTED, WL_SCAN_COMPLETED}

\* millis() - poorSignalStartTime after e more milliseconds; the test of the
\* timeout reads the same from the total timeout on
HyAge(age, e) ==
  IF age = -1 THEN -1
  ELSE IF age + e < POOR_SIGNAL_GRACE_PERIOD_MS + SUSTAIN_TIMEOUT_MS THEN age + e
  ELSE POOR_SIGNAL_GRACE_PERIOD_MS + SUSTAIN_TIMEOUT_MS

\* enterIdleState on the signal-quality fields: poorSignalStartTime is left
\* as it is
hyEnterIdle(h) ==
  [h EXCEPT !.consecutiveGoodChecks = 0,
            !.stddevHistoryCount = 0,
            !.stddevHistoryIndex = 0,
            !.stddevHistory = [i \in 0..(STDDEV_HISTORY_SIZE - 1) |-> 0]]

\* the measurement of idleStateLoop, sd being calculateStddev() of the burst,
\* and its count of good checks
hyIdleCheck(h, sd) ==
  LET h1 == updateStddevHistory(h, sd)
  IN IF SignalGood(sd, calculateSignalStability(h1))
     THEN [h1 EXCEPT !.consecutiveGoodChecks = @ + 1]
     ELSE [h1 EXCEPT !.consecutiveGoodChecks = 0]

\* the sustain timer of the admin check up to the test of the timeout
hySustainTimer(h, sd) ==
  IF SustainGood(sd) THEN [h EXCEPT !.poorAge = -1]
  ELSE IF h.poorAge = -1 THEN [h EXCEPT !.poorAge = 0]
  ELSE h

\* loop() in IDLE
HyIdle ==
  /\ wdt.s.powerState = POWER_STATE_IDLE
  /\ \E sd \in HyStddevs, status \in HyStatuses, e \in IdleElapse :
       \E h \in {hyIdleCheck(hy, sd)} :
         /\ wdt' = wdtIdleLoop(wdt, h.consecutiveGoodChecks >= ACTIVE_TRIGGER_COUNT,
                               status)
         /\ hy' = [h EXCEPT !.poorAge = HyAge(@, e)]
  /\ WdtKeep

\* loop() in ACTIVE, the admin check not due
HySample ==
  /\ wdt.s.powerState # POWER_STATE_IDLE
  /\ wdt.sinceAdmin < WIFI_ADMIN_CHECK_INTERVAL_MS
  /\ \E e \in HyElapse :
       /\ wdt' = [wdt EXCEPT !.op = "sample", !.reset = FALSE,
                             !.sinceAdmin = WdtAge(@ + e)]
       /\ hy' = [hy EXCEPT !.poorAge = HyAge(@, e)]
  /\ WdtKeep

\* loop() in ACTIVE, the admin check due; after a return on the retry limit
\* the sustain timer has not run
HyAdmin ==
  /\ wdt.s.powerState # POWER_STATE_IDLE
  /\ wdt.sinceAdmin >= WIFI_ADMIN_CHECK_INTERVAL_MS
  /\ \E sd \in HyStddevs, status \in HyStatuses, e \in HyElapse :
       \E h \in {hySustainTimer(hy, sd)} :
         \E w \in {wdtAdminCheck(wdt, status,
                                 ~SustainGood(sd) /\ PoorTimedOut(h.poorAge, 0))} :
           /\ wdt' = [w EXCEPT !.sinceAdmin =
                                  IF w.s.powerState = POWER_STATE_IDLE THEN 0
                                  ELSE WdtAge(e)]
           /\ hy' = [(IF w.op = "retry" THEN hyEnterIdle(hy)
                      ELSE IF w.op = "poor" THEN hyEnterIdle(h)
                      ELSE h)
                     EXCEPT !.poorAge = HyAge(@, e)]
  /\ WdtKeep

HyNext == HyIdle \/ HySample \/ HyAdmin

(***************************************************************************)
(* Specifications                                                          *)
(***************************************************************************)
\* Amor runs; Heartbeat stays as constructed
Init == AmorInit /\ HBInitAt(1000, 600)

AmorNext == AmorIdle \/ AmorSample \/ AmorAdmin

Next == AmorNext

Spec == Init /\ [][Next]_vars

\* Heartbeat runs; Amor stays as constructed
InitHB == AmorInit /\ signal = 0 /\ HBInit

SpecHB == InitHB /\ [][HBNext]_vars

\* Heartbeat runs tick by tick, the reading holding its levels
InitSig ==
  /\ AmorInit
  /\ signal = 0
  /\ \E firstReading \in SigRaws, t \in SigBootTimes : HBInitAt(firstReading, t)

SpecSig == InitSig /\ [][SigTick]_vars

\* Heartbeat runs tick by tick, any reading in any tick
InitMA ==
  /\ AmorInit
  /\ signal = 0
  /\ \E firstReading \in MARaws, t \in SigBootTimes : HBInitAt(firstReading, t)

SpecMA == InitMA /\ [][MATick]_vars

\* Heartbeat runs tick by tick on readings close to each other
InitFlat ==
  /\ AmorInit
  /\ signal = 0
  /\ \E firstReading \in FlatRaws, t \in SigBootTimes : HBInitAt(firstReading, t)

SpecFlat == InitFlat /\ [][FlatTick]_vars

\* Heartbeat from the start of setup()
InitBoot == AmorInit /\ signal = 0 /\ BootInit

SpecBoot == InitBoot /\ [][BootNext]_vars

\* the esp32_test program from the end of its setup()
InitEt == AmorInit /\ signal = 0 /\ BootInit

SpecEt == InitEt /\ [][EtPass]_vars

\* updateBaseline is called again and again with the smoothed value held
InitBL ==
  /\ AmorInit
  /\ signal = 0
  /\ \E raws \in BLHistories, t \in SigBootTimes : BLInitAt(raws, t)

SpecBL == InitBL /\ [][BLUpdate]_vars

\* Amor with the light sleep at the end of every pass
SpecSleep == Init /\ [][SleepNext]_vars

\* Amor with its transmit buffer
SpecTx == Init /\ [][TxNext]_vars

\* the interval computations, each applied to a stored timestamp and the
\* clock a true elapsed time later
SpecClock == InitClock /\ [][ClockNext]_vars

\* the control flow of Amor's loop(), run for ever: loop() is called again
\* and again, and the clock advances
SpecWdt == Init /\ [][WdtNext]_vars /\ WF_vars(WdtNext)

\* the same control flow with every check measuring a deviation above the
\* trigger threshold and not above the sustain threshold, run for ever
InitHyst == AmorInit /\ signal = 0 /\ HBInitAt(1000, 600)

SpecHyst == InitHyst /\ [][HyNext]_vars /\ WF_vars(HyNext)

(***************************************************************************)
(* Amor: properties                                                        *)
(***************************************************************************)
\* the gate as the idle check of state s measured it: s.lastStddev is the
\* deviation of the check, the history of s ends with it
GateOpen(s) ==
  /\ s.lastStddev > SIGNAL_QUALITY_THRESHOLD_TRIGGER
  /\ s.stddevHistoryCount >= STABILITY_MIN_ENTRIES
  /\ StddevOf(s.stddevHistory, s.stddevHistoryCount) < SIGNAL_STABILITY_THRESHOLD

\* C1: powerState starts as IDLE; every change of powerState is IDLE->ACTIVE
\* made by an idle check or ACTIVE->IDLE made by an admin check; and loop()
\* dispatches to a handler from every reachable state (every handler returns,
\* so there is no terminal state within the run length MaxPasses).
C1_PowerStateMachine ==
  /\ passes = 0 => state.powerState = POWER_STATE_IDLE
  /\ state.powerState # lastOp.from =>
        \/ /\ lastOp.from = POWER_STATE_IDLE
           /\ state.powerState = POWER_STATE_ACTIVE
           /\ lastOp.op = "idle"
        \/ /\ lastOp.from = POWER_STATE_ACTIVE
           /\ state.powerState = POWER_STATE_IDLE
           /\ lastOp.op = "admin"
  /\ passes < MaxPasses =>
        /\ \/ IdleTurn
           \/ ActiveTurn /\ ~AdminDue(now)
           \/ ActiveTurn /\ AdminDue(now)
        /\ state.powerState \in {POWER_STATE_IDLE, POWER_STATE_ACTIVE}
        /\ NextSignals # {}
        /\ NextElapse # {}

\* C1 witness: the machine has gone IDLE -> ACTIVE -> IDLE -> ACTIVE
C1_Witness ==
  /\ state.powerState = POWER_STATE_ACTIVE
  /\ state.transitionsToIdle >= 1
  /\ state.transitionsToActive >= 2

C2_Step ==
  /\ (state.powerState = POWER_STATE_IDLE /\ state'.powerState = POWER_STATE_ACTIVE)
       => /\ lastOp'.op = "idle"
          /\ GateOpen(state')
          /\ state'.consecutiveGoodChecks >= ACTIVE_TRIGGER_COUNT
  /\ (lastOp'.op = "idle" /\ ~GateOpen(state'))
       => /\ state'.consecutiveGoodChecks = 0
          /\ state'.powerState = POWER_STATE_IDLE

\* C2: the machine enters ACTIVE only at an idle check that measured
\* stddev > SIGNAL_QUALITY_THRESHOLD_TRIGGER and stability <
\* SIGNAL_STABILITY_THRESHOLD and that completes ACTIVE_TRIGGER_COUNT
\* consecutive such checks; an idle check that fails either test resets
\* consecutiveGoodChecks to 0 and leaves the machine in IDLE.
C2_Gate == [][C2_Step]_vars

\* C2 witness: an idle check with a full-length history measured a deviation
\* above the trigger threshold and was rejected because the history is unstable
C2_Witness ==
  /\ lastOp.op = "idle"
  /\ state.powerState = POWER_STATE_IDLE
  /\ state.lastStddev > SIGNAL_QUALITY_THRESHOLD_TRIGGER
  /\ state.stddevHistoryCount >= STABILITY_MIN_ENTRIES
  /\ state.consecutiveGoodChecks = 0

C3_Step ==
  /\ ( /\ state.powerState = POWER_STATE_IDLE
       /\ lastOp'.op = "idle"
       /\ GateOpen(state')
       /\ state.consecutiveGoodChecks + 1 >= ACTIVE_TRIGGER_COUNT )
       => /\ state'.powerState = POWER_STATE_ACTIVE
          /\ state'.transitionsToActive = state.transitionsToActive + 1
  /\ state.powerState = POWER_STATE_ACTIVE => lastOp'.op # "idle"
  /\ state'.transitionsToActive # state.transitionsToActive
       => /\ state.powerState = POWER_STATE_IDLE
          /\ state'.powerState = POWER_STATE_ACTIVE

\* C3: the idle check that completes ACTIVE_TRIGGER_COUNT consecutive good
\* checks makes exactly one IDLE->ACTIVE transition (transitionsToActive grows
\* by exactly 1 and powerState becomes ACTIVE, whether or not WiFi connects),
\* and no idle check runs while the machine is ACTIVE.
C3_OneTransition == [][C3_Step]_vars

\* C3 witness: the machine has just entered ACTIVE although the connection
\* attempt failed
C3_Witness ==
  /\ lastOp.op = "idle"
  /\ state.powerState = POWER_STATE_ACTIVE
  /\ ~state.wifiConnected
  /\ state.transitionsToActive = 1

\* C4: the first two idle checks after boot and after every entry into IDLE
\* never cause a transition to ACTIVE: after such a check the machine is in
\* IDLE and the stability the check computed is SIGNAL_STABILITY_UNKNOWN.
C4_Sentinel ==
  (lastOp.op = "idle" /\ idleChecks < STABILITY_MIN_ENTRIES)
    => /\ state.powerState = POWER_STATE_IDLE
       /\ state.stddevHistoryCount = idleChecks
       /\ calculateSignalStability(state) = SIGNAL_STABILITY_UNKNOWN

\* C4 witness: the second idle check after a return to IDLE measured a
\* deviation above the trigger threshold
C4_Witness ==
  /\ lastOp.op = "idle"
  /\ idleChecks = 2
  /\ state.transitionsToIdle >= 1
  /\ state.lastStddev > SIGNAL_QUALITY_THRESHOLD_TRIGGER
  /\ state.powerState = POWER_STATE_IDLE

\* C5 as stated: a return to IDLE because of poor signal happens only when
\* every admin check since the first poor check of the same session was poor
\* and at least POOR_SIGNAL_GRACE_PERIOD_MS + SUSTAIN_TIMEOUT_MS passed
\* between that first poor check and the check that returns to IDLE.
C5_PoorTimeoutPerSession ==
  lastOp.exit = "poor"
    => /\ poorRunStart >= 0
       /\ Sub32(lastWiFiAdminCheckTime, poorRunStart)
            >= POOR_SIGNAL_GRACE_PERIOD_MS + SUSTAIN_TIMEOUT_MS

\* C6 as stated: whenever powerState is IDLE the WiFi radio is off
C6_IdleRadioOff == state.powerState = POWER_STATE_IDLE => ~radioOn

\* C7: right after every ACTIVE->IDLE transition the session state is reset,
\* and the next idle check measures what it would measure after boot
C7_Reset ==
  lastOp.exit # "none"
    => /\ state.powerState = POWER_STATE_IDLE
       /\ state.consecutiveGoodChecks = 0
       /\ state.stddevHistoryCount = 0
       /\ state.stddevHistoryIndex = 0
       /\ \A i \in 0..(STDDEV_HISTORY_SIZE - 1) : state.stddevHistory[i] = 0
       /\ state.sampleCount = 0
       /\ state.adcRingIndex = 0
       /\ state.wifiRetryCount = 0
       /\ ~state.wifiConnected
       /\ \A amp \in Amps :
            LET m == IdleMeasure(state, amp)
                b == IdleMeasure(AmorInitState, amp)
            IN /\ m.lastStddev = b.lastStddev
               /\ m.stddevHistory = b.stddevHistory
               /\ m.stddevHistoryCount = b.stddevHistoryCount

\* C7 witness: the machine has just returned to IDLE because the WiFi retries
\* were exhausted, with samples of the session in the ring buffer
C7_Witness ==
  /\ lastOp.exit = "retry"
  /\ state.powerState = POWER_STATE_IDLE
  /\ state.adcRingBuffer[0] # 0

\* C8 as stated: an ACTIVE session never sees WIFI_RETRY_LIMIT consecutive
\* admin checks without a connection and stays ACTIVE, whatever non-connected
\* status the WiFi layer reports
C8_RetryLimit ==
  state.powerState = POWER_STATE_ACTIVE => downChecks < WIFI_RETRY_LIMIT

(***************************************************************************)
(* Heartbeat: properties                                                   *)
(***************************************************************************)
\* C9: any two successive accepted rising edges (the suppressed first beat
\* included) are at least REFRACTORY_PERIOD_MS apart; every IBI passed to
\* sendHeartbeatOSC is >= REFRACTORY_PERIOD_MS, so 60000 / ibi divides by a
\* nonzero number and is at most 200.
C9_Refractory ==
  /\ hbEdges.prev # -1 => Sub32(hbEdges.last, hbEdges.prev) >= REFRACTORY_PERIOD_MS
  /\ hbBeat.kind = "beat"
       => /\ hbBeat.arg >= REFRACTORY_PERIOD_MS
          /\ hbBeat.ibi # 0
          /\ MS_PER_MINUTE \div hbBeat.ibi <= 200
          /\ sensor.lastIBI = hbBeat.ibi

\* C9 witness: a beat was sent with an IBI of exactly REFRACTORY_PERIOD_MS
C9_Witness ==
  /\ hbBeat.kind = "beat"
  /\ hbBeat.arg = REFRACTORY_PERIOD_MS
  /\ hbEdges.prev # -1

C10_Step ==
  /\ hbBeat'.early
       => /\ hbBeat'.kind = "none"
          /\ sensor'.aboveThreshold = sensor.aboveThreshold
          /\ sensor'.lastIBI = sensor.lastIBI
          /\ hbEdges'.last = hbEdges.last
  /\ hbBeat'.kind # "none"
       => Sub32(hbNow, hbEdges.last) >= REFRACTORY_PERIOD_MS \/ hbEdges.last = -1

HBSampled == hbLastSampleTime' # hbLastSampleTime

\* the rising edge of the last tick was rejected by the refractory check and is
\* still pending: the smoothed value was at or above the threshold of a
\* connected sensor and detectBeat left aboveThreshold false
PendingEdge == hbEdges.above /\ ~sensor.aboveThreshold

C11_Step ==
  HBSampled =>
    \A mid \in {BeforeDetect(sensor, hbEnv'.raw, hbNow)} :
      /\ hbBeat'.early
           => /\ sensor' = mid
              /\ hbBeat'.kind = "none"
      /\ ( /\ PendingEdge
           /\ mid.isConnected
           /\ mid.smoothedValue >= Threshold(mid)
           /\ Sub32(hbNow, mid.lastBeatTime) >= REFRACTORY_PERIOD_MS )
           => /\ hbBeat'.kind # "none"
              /\ sensor'.aboveThreshold
              /\ hbEdges'.last = hbNow
              /\ hbEdges'.lastRise = hbEdges.riseTime

\* C11: a rising-edge candidate rejected by the refractory check leaves every
\* field of the sensor state as the earlier stages of the tick left it
\* (aboveThreshold, lastBeatTime, lastIBI and firstBeatDetected among them);
\* while the sensor stays connected and the smoothed value stays at or above
\* the threshold, that same edge is accepted at the first later tick at which
\* millis() - lastBeatTime >= REFRACTORY_PERIOD_MS.
C11_RejectedEdgeKept == [][C11_Step]_vars

\* C11 witness: an edge was accepted in a tick later than the one where the
\* smoothed value rose through the threshold, after a rejection
C11_Witness ==
  /\ hbBeat.kind # "none"
  /\ hbEdges.lastRise # -1
  /\ hbEdges.lastRise < hbEdges.last
  /\ hbEdges.prev # -1
  /\ Sub32(hbEdges.lastRise, hbEdges.prev) < REFRACTORY_PERIOD_MS

\* C12: the first rising edge accepted after initializeSensor or after a
\* reconnection sends nothing: it sets firstBeatDetected and lastBeatTime to
\* the time of the tick; an IBI is sent only at a later accepted edge, and it
\* is the time since the previous accepted edge, which lies after the last
\* reconnection.
C12_FirstBeatSuppressed ==
  /\ hbBeat.kind # "none"
       => (hbBeat.kind = "first"
             <=> (hbEdges.prev = -1 \/ hbEdges.prev < hbHist.reconnectAt))
  /\ hbBeat.kind = "first"
       => /\ hbBeat.arg = 0
          /\ hbBeat.ibi = 0
          /\ sensor.firstBeatDetected
          /\ sensor.lastBeatTime = hbEdges.last
  /\ hbBeat.kind = "beat"
       => /\ hbEdges.prev # -1
          /\ hbEdges.prev > hbHist.reconnectAt
          /\ hbBeat.ibi = Sub32(hbEdges.last, hbEdges.prev)
          /\ hbBeat.arg = hbBeat.ibi
          /\ sensor.lastBeatTime = hbEdges.last

\* C12 witness: after an accepted edge the sensor was disconnected and
\* reconnected, and the next accepted edge was taken as a first beat
C12_Witness ==
  /\ hbBeat.kind = "first"
  /\ hbEdges.prev # -1
  /\ hbHist.reconnectAt > hbEdges.prev
  /\ sensor.firstBeatDetected

C13_Step ==
  HBSampled =>
    \A mid \in {BeforeDetect(sensor, hbEnv'.raw, hbNow)} :
      ~mid.isConnected
        => /\ hbBeat'.kind = "none"
           /\ sensor' = mid
           /\ sensor'.aboveThreshold = sensor.aboveThreshold
           /\ sensor'.lastBeatTime = sensor.lastBeatTime
           /\ sensor'.lastIBI = sensor.lastIBI
           /\ sensor'.firstBeatDetected = sensor.firstBeatDetected
           /\ hbEdges'.last = hbEdges.last

\* C13: in a tick where checkDisconnection leaves isConnected false, detectBeat
\* does nothing: no beat is accepted or sent, and aboveThreshold, lastBeatTime,
\* lastIBI and firstBeatDetected keep the values they had before the tick.
C13_DisconnectedNoOp == [][C13_Step]_vars

\* C13 witness: a tick left the sensor disconnected with the smoothed value at
\* or above the threshold, aboveThreshold false and the refractory period over
C13_Witness ==
  /\ hbEnv.passes > 0
  /\ ~sensor.isConnected
  /\ sensor.smoothedValue >= Threshold(sensor)
  /\ ~sensor.aboveThreshold
  /\ Sub32(hbLastSampleTime, sensor.lastBeatTime) >= REFRACTORY_PERIOD_MS
  /\ hbBeat.kind = "none"

C14_Step ==
  HBSampled =>
    \A b \in {BeforeCheck(sensor, hbEnv'.raw)} :
      /\ sensor'.flatSampleCount = FlatCount(b, hbEnv'.raw)
      /\ Disconnects(b, hbEnv'.raw) => ~sensor'.isConnected
      /\ (sensor.isConnected /\ ~Disconnects(b, hbEnv'.raw)) => sensor'.isConnected

\* C14: in every tick, if after the flat-sample count of the tick
\* flatSampleCount >= 50, or the envelope as updateBaseline left it in that tick
\* has maxValue - minValue < MIN_SIGNAL_RANGE, the sensor is disconnected after
\* checkDisconnection; a connected sensor stays connected in a tick where
\* neither holds.
C14_DisconnectionPolicy == [][C14_Step]_vars

\* C14 witness: a connected sensor with a sufficient range was disconnected by
\* the flat-sample count alone
C14_Witness ==
  /\ ~sensor.isConnected
  /\ sensor.flatSampleCount = FLAT_SAMPLE_LIMIT
  /\ SignalRange(sensor) >= MIN_SIGNAL_RANGE
  /\ sensor.firstBeatDetected

C15_Step ==
  HBSampled =>
    \A b \in {BeforeCheck(sensor, hbEnv'.raw)} :
      \A flat \in {FlatCount(b, hbEnv'.raw)}, range \in {SignalRange(b)} :
        /\ (~sensor.isConnected /\ sensor'.isConnected)
             => /\ flat = 0
                /\ range >= MIN_SIGNAL_RANGE
                /\ sensor'.flatSampleCount = 0
                /\ sensor'.minValue = sensor'.smoothedValue
                /\ sensor'.maxValue = sensor'.smoothedValue
                /\ sensor'.smoothedValue = b.smoothedValue
                /\ ~sensor'.firstBeatDetected
                /\ sensor'.lastBeatTime = hbNow
                /\ hbBeat'.kind = "none"
        /\ (~sensor.isConnected /\ (flat > 0 \/ range < MIN_SIGNAL_RANGE))
             => ~sensor'.isConnected
        /\ (~sensor.isConnected /\ flat = 0 /\ range >= MIN_SIGNAL_RANGE)
             => sensor'.isConnected

\* C15: isConnected changes from false to true only in a tick where, in
\* checkDisconnection, flatSampleCount == 0 and maxValue - minValue >=
\* MIN_SIGNAL_RANGE both hold; a disconnected sensor with flatSampleCount > 0
\* or a smaller range stays disconnected.  In the tick of a reconnection
\* minValue = maxValue = smoothedValue, firstBeatDetected is false and
\* lastBeatTime is the time of the tick.
C15_ReconnectionHysteresis == [][C15_Step]_vars

\* C15 witness: a sensor that had accepted an edge and was disconnected has
\* just been reconnected, its envelope reseeded and its first-beat flag cleared
C15_Witness ==
  /\ hbHist.reconnectAt = hbLastSampleTime
  /\ hbEdges.last # -1
  /\ sensor.isConnected
  /\ ~sensor.firstBeatDetected
  /\ sensor.minValue = sensor.smoothedValue
  /\ sensor.maxValue = sensor.smoothedValue
  /\ sensor.lastBeatTime = hbLastSampleTime

\* updateBaseline applies the decay in this call
DecayDue(sn) == sn.samplesSinceDecay + 1 >= BASELINE_DECAY_INTERVAL

C16_Step ==
  HBSampled =>
    \A ma \in {updateMovingAverage(sensor, hbEnv'.raw)} :
      \A b \in {updateBaseline(ma)} :
        LET lo == IF ma.smoothedValue < sensor.minValue
                  THEN ma.smoothedValue ELSE sensor.minValue
            hi == IF ma.smoothedValue > sensor.maxValue
                  THEN ma.smoothedValue ELSE sensor.maxValue
        IN /\ b.minValue <= b.smoothedValue
           /\ b.smoothedValue <= b.maxValue
           /\ sensor'.minValue <= sensor'.smoothedValue
           /\ sensor'.smoothedValue <= sensor'.maxValue
           /\ sensor'.smoothedValue = ma.smoothedValue
           /\ DecayDue(sensor)
                => /\ b.samplesSinceDecay = 0
                   /\ lo <= b.minValue
                   /\ b.maxValue <= hi
           /\ ~DecayDue(sensor)
                => /\ b.minValue = lo
                   /\ b.maxValue = hi

\* C16: at the end of every tick, after updateBaseline (decay included) and
\* after a reconnection reseed, minValue <= smoothedValue <= maxValue; the decay
\* moves minValue only upward and maxValue only downward from the envelope the
\* instant expansion gives, and never past smoothedValue.
C16_EnvelopeInvariant == [][C16_Step]_vars

\* C16 witness: at the tick of the first decay the smoothed value was 3000 in
\* the envelope 1000..3100; the decay raised minValue by 200 and lowered
\* maxValue by 10
C16_Witness ==
  /\ hbEnv.passes = BASELINE_DECAY_INTERVAL
  /\ sensor.samplesSinceDecay = 0
  /\ sensor.smoothedValue = 3000
  /\ sensor.minValue = 1200
  /\ sensor.maxValue = 3090

C17_Step ==
  /\ sensor'.minValue <= sensor'.smoothedValue
  /\ sensor'.smoothedValue <= sensor'.maxValue
  /\ sensor.minValue <= sensor'.minValue
  /\ sensor'.maxValue <= sensor.maxValue
  /\ (DecayDue(sensor) /\ SignalRange(sensor) > 0)
       => SignalRange(sensor') < SignalRange(sensor)

\* C17: with the smoothed value held inside the envelope, every decay step
\* makes maxValue - minValue strictly smaller while it is above 0, and the
\* envelope never crosses smoothedValue.
C17_DecayStrictlyNarrows == [][C17_Step]_vars

C18_Step ==
  sensor' # sensor =>
    /\ sensor.minValue <= sensor.smoothedValue
    /\ sensor.smoothedValue <= sensor.maxValue
    /\ DecayDue(sensor) <=> sensor.samplesSinceDecay = BASELINE_DECAY_INTERVAL - 1
    /\ ~DecayDue(sensor)
         => sensor' = [sensor EXCEPT !.samplesSinceDecay = @ + 1]
    /\ DecayDue(sensor)
         => sensor' = [sensor EXCEPT
                         !.minValue = @ + DecayStep(sensor.smoothedValue - @),
                         !.maxValue = @ - DecayStep(@ - sensor.smoothedValue),
                         !.samplesSinceDecay = 0]
    /\ sensor'.samplesSinceDecay >= 0
    /\ sensor'.samplesSinceDecay < BASELINE_DECAY_INTERVAL

\* C18: a call of updateBaseline with the smoothed value unchanged and inside
\* the envelope changes samplesSinceDecay only, adding 1; minValue and maxValue
\* change only in each BASELINE_DECAY_INTERVAL-th call, which applies the decay
\* and sets the counter to 0, so 0 <= samplesSinceDecay <
\* BASELINE_DECAY_INTERVAL after every call.
C18_BaselineIdempotence == [][C18_Step]_vars

\* C18 witness: the second decay of the envelope 0..4095 around 2000 has just
\* been applied
C18_Witness ==
  /\ sensor.smoothedValue = 2000
  /\ sensor.samplesSinceDecay = 0
  /\ sensor.minValue = 380
  /\ sensor.maxValue = 3698

\* the sum of a sequence of readings
RECURSIVE SeqSum(_)
SeqSum(q) == IF q = << >> THEN 0 ELSE Head(q) + SeqSum(Tail(q))

\* the window holds one level
Steady(q) == \A i \in 1..Len(q) : q[i] = q[1]

\* C19: after initializeSensor and after every updateMovingAverage call,
\* smoothedValue is the truncating integer mean of the last MOVING_AVG_SAMPLES
\* readings, the first reading standing in for those not yet received; five
\* equal readings R give R; the first reading 2000 followed by 2200 gives 2040,
\* and maxValue is 2040 in the same tick.
C19_MovingAverage ==
  /\ Len(hbHist.fed) = MOVING_AVG_SAMPLES
  /\ sensor.smoothedValue = SeqSum(hbHist.fed) \div MOVING_AVG_SAMPLES
  /\ Steady(hbHist.fed) => sensor.smoothedValue = hbHist.fed[1]
  /\ (hbEnv.passes = 1 /\ hbHist.fed = << 2000, 2000, 2000, 2000, 2200 >>)
       => /\ sensor.smoothedValue = 2040
          /\ sensor.maxValue = 2040
          /\ sensor.minValue = 2000

\* C19 witness: the first reading was 2000 and the first tick read 2200
C19_Witness ==
  /\ hbEnv.passes = 1
  /\ hbHist.fed = << 2000, 2000, 2000, 2000, 2200 >>
  /\ sensor.smoothedValue = 2040
  /\ sensor.maxValue = 2040

\* the change of smoothedValue in a tick that reads R + d after a window of R
OutlierDelta == sensor'.smoothedValue - sensor.smoothedValue

OutlierD == hbEnv'.raw - hbHist.fed[1]

C20_Step ==
  (HBSampled /\ Steady(hbHist.fed))
    => /\ sensor.smoothedValue = hbHist.fed[1]
       /\ OutlierDelta * MOVING_AVG_SAMPLES <= OutlierD
       /\ OutlierD < (OutlierDelta + 1) * MOVING_AVG_SAMPLES
       /\ Abs(OutlierDelta) * MOVING_AVG_SAMPLES < Abs(OutlierD) + MOVING_AVG_SAMPLES

\* C20, amended: from a window of five readings R, one reading R + d changes
\* smoothedValue by floor(d / 5): by at most |d| / 5 when d >= 0, and by
\* less than |d| / 5 + 1 when d < 0.
C20_OutlierBoundFloor == [][C20_Step]_vars

\* C20 witness: after five readings 2000 the reading 1999 lowered smoothedValue
\* to 1999
C20_Witness ==
  /\ hbEnv.passes > MOVING_AVG_SAMPLES
  /\ hbHist.fed = << 2000, 2000, 2000, 2000, 1999 >>
  /\ sensor.smoothedValue = 1999

C20_OrigStep ==
  (HBSampled /\ Steady(hbHist.fed))
    => Abs(OutlierDelta) * MOVING_AVG_SAMPLES <= Abs(OutlierD)

\* C20 as stated: from a window of five readings R, one reading R + d changes
\* smoothedValue by at most |d| / 5
C20_OutlierBound == [][C20_OrigStep]_vars

\* C21: sendHeartbeatOSC is called only in states where state.wifiConnected
\* is true.
C21_SendOnlyConnected == hbBeat.kind = "beat" => hbState.wifiConnected

C22_Step ==
  HBSampled =>
    \A ma \in {updateMovingAverage(sensor, hbEnv'.raw)} :
      \A b \in {updateBaseline(ma)} :
        \A cd \in {checkDisconnection(b, hbEnv'.raw, hbNow)} :
          \A r \in {detectBeat(cd, hbNow, 0, 0)} :
            /\ sensor' = r.s
            /\ hbBeat'.kind = r.kind
            /\ hbBeat'.arg = r.arg
            /\ sensor'.sampleIndex = (sensor.sampleIndex + 1) % MOVING_AVG_SAMPLES
            /\ sensor'.smoothedValue
                 = SeqSum(hbHist'.fed) \div MOVING_AVG_SAMPLES
            /\ sensor'.samplesSinceDecay
                 = (sensor.samplesSinceDecay + 1) % BASELINE_DECAY_INTERVAL
            /\ sensor'.lastRawValue = hbEnv'.raw
            /\ sensor'.flatSampleCount \in {0, sensor.flatSampleCount + 1}
            /\ hbBeat'.kind # "none"
                 => /\ cd.isConnected
                    /\ ~cd.aboveThreshold
                    /\ cd.smoothedValue = ma.smoothedValue
                    /\ cd.smoothedValue >= Threshold(cd)
                    /\ cd.minValue = b.minValue
                    /\ cd.maxValue = b.maxValue
                    /\ hbEdges'.last = hbNow
                    /\ hbEdges'.prev < hbNow

\* C22: in every sampling tick the state after the tick is the result of
\* updateMovingAverage, updateBaseline, checkDisconnection and detectBeat
\* applied once each in this order to the state before it; detectBeat accepts
\* an edge only on the smoothed value, envelope and connection flag of the same
\* tick, and a tick accepts at most one edge.
C22_PipelineOrder == [][C22_Step]_vars

\* C22 witness: an edge was accepted in the very tick in which the smoothed
\* value rose through the threshold
C22_Witness ==
  /\ hbBeat.kind = "beat"
  /\ hbEdges.lastRise = hbEdges.last
  /\ hbEdges.last = hbLastSampleTime

\* the states a pass of loop() can leave behind when the light sleep at its
\* end is left out: an idle check that stays in IDLE, a sample pass, an admin
\* check that stays in ACTIVE and measured sd
SleeplessOutcomes(sd) ==
  IF IdleTurn
  THEN { IdleDecide([s |-> state, radio |-> radioOn], s2,
                    calculateSignalStability(s2), WL_NO_SHIELD).s :
           s2 \in {IdleMeasure(state, signal')} }
  ELSE IF ~AdminDue(now) THEN {AfterSample(signal')}
  ELSE { AdminCheck([s |-> AfterSample(signal'), radio |-> radioOn], status,
                    sd, now).w.s : status \in WlStatus }

C23_Step ==
  slp'.kind # "none" /\ passes' # passes =>
    /\ slp'.wait = slp'.slept + slp'.delayed
    /\ now' - now >= slp'.wait
    /\ slp'.kind = "idle" =>
         /\ slp'.wait >= IDLE_CHECK_INTERVAL_MS - IDLE_SLEEP_TOLERANCE_MS
         /\ slp'.err # ESP_OK => slp'.delayed = IDLE_CHECK_INTERVAL_MS
         /\ slp'.err = ESP_OK
              /\ slp'.slept < IDLE_CHECK_INTERVAL_MS - IDLE_SLEEP_TOLERANCE_MS
              => slp'.delayed = IDLE_CHECK_INTERVAL_MS - slp'.slept
    /\ slp'.kind = "active" =>
         /\ slp'.requested = (lastSampleTime' + AMOR_SAMPLE_INTERVAL_MS) - now
         /\ slp'.wait >= slp'.requested - ACTIVE_SLEEP_TOLERANCE_MS
         /\ slp'.err # ESP_OK => slp'.delayed = slp'.requested
         /\ slp'.err = ESP_OK
              /\ slp'.slept < slp'.requested - ACTIVE_SLEEP_TOLERANCE_MS
              => slp'.delayed = slp'.requested - slp'.slept
    /\ state'.powerState = state.powerState
    /\ state' \in SleeplessOutcomes(state'.lastStddev)

\* C23: whatever the light sleep at the end of a pass does (rejected, woken
\* early, slept in full), the wait of an idle iteration is at least
\* IDLE_CHECK_INTERVAL_MS - 10 ms and the wait of an active iteration at least
\* the requested sleepTimeMs - 2 ms: after an error a delay() of the full
\* duration follows, after a wake-up beyond the tolerance a delay() of the
\* remaining duration; the pass leaves the power state alone and leaves the
\* state the same pass leaves without its sleep.
C23_SleepCompensated == [][C23_Step]_vars

\* C23 witness: an active pass slept for a 20 ms request, was woken after
\* 17 ms, beyond the tolerance, and made up the remaining 3 ms.
C23_Witness ==
  /\ slp.kind = "active" /\ slp.err = ESP_OK
  /\ slp.requested = AMOR_SAMPLE_INTERVAL_MS
  /\ slp.slept = slp.requested - ACTIVE_SLEEP_TOLERANCE_MS - 1
  /\ slp.delayed = ACTIVE_SLEEP_TOLERANCE_MS + 1
  /\ state.powerState = POWER_STATE_ACTIVE

\* the standard deviation of the IDLE_CHECK_SAMPLES readings of one burst of a
\* signal of amplitude amp, written from slot idx on
BurstStddev(amp, idx) ==
  StddevOf([i \in 0..(IDLE_CHECK_SAMPLES - 1) |->
              AnalogRead(amp, (idx + i) % ADC_RING_SIZE)], IDLE_CHECK_SAMPLES)

C24_Step ==
  lastOp'.op = "idle" /\ passes' # passes
    /\ state'.powerState = POWER_STATE_IDLE =>
    /\ state'.stddevHistory[state.stddevHistoryIndex] = state'.lastStddev
    /\ state'.lastStddev = BurstStddev(signal', state.adcRingIndex)

\* C24: the standard deviation an idle check pushes into the stddev history
\* is the standard deviation of the IDLE_CHECK_SAMPLES readings of that
\* check's burst alone.
C24_BurstOnly == [][C24_Step]_vars

\* C25: for a stored timestamp and the clock a true elapsed time d < 2^32
\* later, across a wrap of the clock or not, the refractory test, the emitted
\* IBI, the sample-due and admin-due tests, the poor-signal timeout test and
\* the sleep until the next sample give what d itself gives.
C25_WrapTolerant ==
  /\ clk.op = "refractory" => clk.flag = U32Lt(clk.d, REFRACTORY_PERIOD_MS)
  /\ clk.op = "ibi" => clk.val = clk.d
  /\ clk.op = "sampleDue" => clk.flag = ~U32Lt(clk.d, AMOR_SAMPLE_INTERVAL_MS)
  /\ clk.op = "adminDue"
       => clk.flag = ~U32Lt(clk.d, WIFI_ADMIN_CHECK_INTERVAL_MS)
  /\ clk.op = "poorTimeout"
       => clk.flag = ~U32Lt(clk.d, POOR_SIGNAL_GRACE_PERIOD_MS
                                     + SUSTAIN_TIMEOUT_MS)
  /\ clk.op = "sleep" => clk.val = AMOR_SAMPLE_INTERVAL_MS - clk.d

C26_Step ==
  /\ wdt'.op = "idle" => wdt'.reset
  /\ wdt'.op \in {"admin", "poor"} => wdt'.reset
  /\ wdt'.op = "admin" => wdt'.s.powerState = POWER_STATE_ACTIVE
  /\ ~wdt'.reset /\ wdt'.s.powerState = POWER_STATE_IDLE => wdt'.op = "retry"

\* C26: with the watchdog compiled in, every infinite run of loop() resets the
\* watchdog again and again: every idle iteration resets it, every admin
\* check that stays in ACTIVE resets it, and a pass that does not (a sample
\* pass, an admin check that returns to IDLE at the retry limit) is followed
\* by one that does.
C26_WatchdogFed == ([]<>wdt.reset) /\ [][C26_Step]_vars

\* C26 witness: an admin check returned to IDLE at the WiFi retry limit,
\* before the watchdog reset.
C26_Witness ==
  /\ wdt.op = "retry" /\ ~wdt.reset
  /\ wdt.s.powerState = POWER_STATE_IDLE

\* the envelope as initializeSensor and a reconnection leave it: a single
\* point at the smoothed value
SinglePoint(sn) ==
  sn.minValue = sn.smoothedValue /\ sn.maxValue = sn.smoothedValue

C27_Step ==
  HBSampled
    /\ Abs(sensor'.smoothedValue - sensor.smoothedValue) < MIN_SIGNAL_RANGE
    /\ (sensor.isConnected => SinglePoint(sensor)) =>
    /\ ~(sensor.isConnected /\ sensor'.isConnected)
    /\ sensor'.isConnected => SinglePoint(sensor') /\ hbHist'.reconnectAt = hbNow
    /\ hbBeat'.kind = "none"
    /\ sensor'.firstBeatDetected = sensor.firstBeatDetected \/ ~sensor'.firstBeatDetected

\* C27: a connected sensor whose envelope is a single point (after
\* initializeSensor, after a reconnection) is marked disconnected by the next
\* tick unless the smoothed value moves by MIN_SIGNAL_RANGE or more in that
\* tick.  A tick that moves it by less takes a sensor that is disconnected, or
\* connected with a single-point envelope, to one that is again so, never
\* leaves it connected twice running and accepts no beat: as setup() leaves
\* such a sensor, an input that moves the smoothed value by less than
\* MIN_SIGNAL_RANGE per tick never has the sensor connected on two
\* consecutive ticks and never has a beat accepted or sent.
C27_SlowSignalNeverConnected == [][C27_Step]_vars

\* C27 witness: the reading moved between 3000 and 3100 only (20 per tick in
\* the smoothed value); the sensor reconnected in the last tick but one and
\* was marked disconnected again in the last, and no beat was ever accepted.
C27_Witness ==
  /\ ~sensor.isConnected
  /\ hbHist.reconnectAt = hbLastSampleTime - SAMPLE_INTERVAL_MS
  /\ \A i \in 1..MOVING_AVG_SAMPLES : hbHist.fed[i] \in {3000, 3100}
  /\ hbEnv.rawChanges = 2
  /\ sensor.smoothedValue = 3060
  /\ sensor.minValue = 3060 /\ sensor.maxValue = 3080
  /\ hbEdges.last = -1

\* C28: a tick that accepts a rising edge (the suppressed first beat or an
\* emitted beat) leaves an envelope of at least MIN_SIGNAL_RANGE and a
\* flatSampleCount below 50, and is not the tick of a reconnection.
C28_AcceptedEdgeInRange ==
  hbBeat.kind # "none" =>
    /\ sensor.isConnected
    /\ sensor.maxValue - sensor.minValue >= MIN_SIGNAL_RANGE
    /\ sensor.flatSampleCount < FLAT_SAMPLE_LIMIT
    /\ hbHist.reconnectAt # hbLastSampleTime

\* C28 witness: the first beat after a reconnection, accepted on a later tick
\* with the envelope open again.
C28_Witness ==
  /\ hbBeat.kind = "first"
  /\ hbHist.reconnectAt # -1
  /\ hbHist.reconnectAt < hbLastSampleTime
  /\ sensor.maxValue - sensor.minValue >= MIN_SIGNAL_RANGE

\* C29: every bundle transmitted consists of samples acquired in the session
\* it is transmitted in, and carries the acquisition time of its first
\* sample.
C29_BundleWithinSession ==
  tx.bundlesSent > 0 =>
    /\ \A i \in 0..(BUNDLE_SIZE - 1) :
         tx.sent.samples[i].session = tx.sent.session
    /\ tx.sent.timestamp = tx.sent.samples[0].time

C30_Step ==
  passes' # passes =>
    IF lastOp'.op = "admin" /\ lastOp'.exit # "retry"
    THEN /\ state'.lastStddev > SIGNAL_QUALITY_THRESHOLD_SUSTAIN
              => state'.poorSignalStartTime = 0 /\ lastOp'.exit = "none"
         /\ state'.lastStddev <= SIGNAL_QUALITY_THRESHOLD_SUSTAIN
              => \A start \in {IF state.poorSignalStartTime = 0 THEN now
                                ELSE state.poorSignalStartTime} :
                   /\ state'.poorSignalStartTime = start
                   /\ lastOp'.exit = "poor"
                        <=> now - start >= POOR_SIGNAL_GRACE_PERIOD_MS
                                           + SUSTAIN_TIMEOUT_MS
    ELSE state'.poorSignalStartTime = state.poorSignalStartTime

\* C30: an admin check that measures good signal clears the poor-signal
\* timer; one that measures poor signal starts the timer if it is clear and
\* leaves it alone otherwise, and returns to IDLE exactly when the time since
\* the timer's start has reached the timeout; no other pass touches the
\* timer.  So the timer always holds the time of the first poor check after
\* the most recent good one, and poor checks separated by good ones never add
\* up.
C30_GoodCheckClearsTimer == [][C30_Step]_vars

\* C30 witness: the admin check at 7000 ms measured poor signal (amplitude 60)
\* and started the timer, the signal grew strong, and the admin check at
\* 10000 ms measured good signal and cleared it.
C30_Witness ==
  /\ lastOp.op = "admin"
  /\ state.poorSignalStartTime = 0
  /\ state.lastStddev > SIGNAL_QUALITY_THRESHOLD_SUSTAIN
  /\ state.transitionsToActive = 1 /\ state.transitionsToIdle = 0
  /\ state.adcRingIndex = 13
  /\ state.adcRingBuffer[11] = AdcMid - 60
  /\ state.adcRingBuffer[12] = AdcMid + 2000
  /\ lastWiFiAdminCheckTime = 10000

C31_Step ==
  /\ tx'.bundlesSent # tx.bundlesSent
       => /\ state.powerState = POWER_STATE_ACTIVE
          /\ state.wifiConnected
          /\ tx.bufferIndex = BUNDLE_SIZE - 1
          /\ tx'.bundlesSent = tx.bundlesSent + 1
          /\ tx'.bufferIndex = 0
  /\ tx' # tx => state.powerState = POWER_STATE_ACTIVE
  /\ (tx' # tx /\ tx.bufferIndex = BUNDLE_SIZE - 1)
       => /\ tx'.bufferIndex = 0
          /\ tx'.bundlesSent = tx.bundlesSent + (IF state.wifiConnected THEN 1 ELSE 0)
          /\ ~state.wifiConnected => tx'.sent = tx.sent

\* C31: bundlesSent grows only in ACTIVE with the wifiConnected flag set, by
\* one, as the sample that fills the bundle is taken; a bundle that fills
\* while the flag is clear is dropped: bundlesSent and the last bundle sent
\* stay as they were and bufferIndex returns to 0.
C31_SendGated == [][C31_Step]_vars

\* C31 witness: a bundle filled and was dropped (the last slot holds a sample
\* of a session, the buffer is empty again, nothing was ever sent).
C31_Witness ==
  /\ tx.sampleBuffer[BUNDLE_SIZE - 1].session > 0
  /\ tx.bufferIndex = 0
  /\ tx.bundlesSent = 0
  /\ ~state.wifiConnected

\* C32: a rising edge that detectBeat rejects by the refractory test comes
\* after an accepted edge or after a reconnection; before both, with
\* lastBeatTime still as initializeSensor set it, no edge is rejected.
C32_FirstEdgePassesGate ==
  hbBeat.early => (hbEdges.last # -1 \/ hbHist.reconnectAt # -1)

C33_Step ==
  hbEnv'.passes # hbEnv.passes =>
    /\ sensor'.aboveThreshold # sensor.aboveThreshold => sensor'.isConnected
    /\ sensor.aboveThreshold
         => /\ hbBeat'.kind = "none"
            /\ \/ sensor'.aboveThreshold
               \/ /\ sensor'.isConnected
                  /\ sensor'.smoothedValue < Threshold(sensor')
    /\ (~sensor.aboveThreshold /\ sensor'.aboveThreshold)
         => hbBeat'.kind # "none"

\* C33: a tick changes aboveThreshold only if it leaves the sensor connected;
\* a tick that starts with the latch set accepts no edge and leaves the latch
\* set unless it leaves the sensor connected with the smoothed value below the
\* threshold - whether or not the sensor disconnects or reconnects in it; the
\* latch is set only by a tick that accepts an edge.
C33_LatchSurvivesReconnection == [][C33_Step]_vars

\* C33 witness: the tick just processed reconnected the sensor and the latch,
\* set before the disconnection, is still set.
C33_Witness ==
  /\ sensor.aboveThreshold
  /\ sensor.isConnected
  /\ hbHist.reconnectAt = hbLastSampleTime
  /\ hbEnv.passes > 0

\* C34: between passes of loop(), IDLE goes with wifiConnected = false and
\* wifiRetryCount = 0, and ACTIVE with 0 <= wifiRetryCount < WIFI_RETRY_LIMIT.
C34_RetryCountBounds ==
  /\ state.powerState = POWER_STATE_IDLE
       => ~state.wifiConnected /\ state.wifiRetryCount = 0
  /\ state.powerState = POWER_STATE_ACTIVE
       => state.wifiRetryCount >= 0 /\ state.wifiRetryCount < WIFI_RETRY_LIMIT

\* C34 witness: the admin check just made counted the retry that reached the
\* limit and returned to IDLE, where the counter is 0 again.
C34_Witness ==
  /\ lastOp.op = "admin"
  /\ lastOp.exit = "retry"
  /\ state.powerState = POWER_STATE_IDLE
  /\ state.wifiRetryCount = 0
  /\ ~state.wifiConnected

\* C35: between passes of loop() the indices and counts of the three buffers
\* are in range, and a buffer that is not yet full has been written from slot
\* 0 up to its write index: the count is the index.  calculateStddev and
\* calculateSignalStability read slots 0..count-1, which are then the slots
\* written since the last reset.
C35_BuffersWellFormed ==
  /\ state.adcRingIndex \in 0..(ADC_RING_SIZE - 1)
  /\ state.sampleCount \in 0..ADC_RING_SIZE
  /\ state.stddevHistoryIndex \in 0..(STDDEV_HISTORY_SIZE - 1)
  /\ state.stddevHistoryCount \in 0..STDDEV_HISTORY_SIZE
  /\ tx.bufferIndex \in 0..(BUNDLE_SIZE - 1)
  /\ state.sampleCount < ADC_RING_SIZE
       => state.adcRingIndex = state.sampleCount
  /\ state.stddevHistoryCount < STDDEV_HISTORY_SIZE
       => state.stddevHistoryIndex = state.stddevHistoryCount

\* C35 witness: after a return to IDLE reset the buffers, one idle check has
\* written IDLE_CHECK_SAMPLES readings and one history entry; the transmit buffer holds part
\* of a bundle.
C35_Witness ==
  /\ state.transitionsToIdle = 1
  /\ state.powerState = POWER_STATE_IDLE
  /\ state.sampleCount = IDLE_CHECK_SAMPLES
  /\ state.adcRingIndex = IDLE_CHECK_SAMPLES
  /\ state.stddevHistoryCount = 1
  /\ tx.bufferIndex > 0

\* the number of most recent consecutive readings of the window w, at most
\* Len(w) - 1, that differ from the reading before by less than
\* FLAT_SIGNAL_THRESHOLD
RECURSIVE FlatRun(_)
FlatRun(w) ==
  IF Len(w) < 2 THEN 0
  ELSE IF Abs(w[Len(w)] - w[Len(w) - 1]) < FLAT_SIGNAL_THRESHOLD
       THEN 1 + FlatRun(SubSeq(w, 1, Len(w) - 1))
       ELSE 0

\* the count against the last MOVING_AVG_SAMPLES readings, once that many
\* ticks have run less one (the reading before the first tick is the one of
\* initializeSensor)
C36_Window ==
  /\ sensor.lastRawValue = hbEnv.raw
  /\ sensor.flatSampleCount <= hbEnv.passes
  /\ hbEnv.passes >= MOVING_AVG_SAMPLES - 1
       => IF FlatRun(hbHist.fed) < MOVING_AVG_SAMPLES - 1
          THEN sensor.flatSampleCount = FlatRun(hbHist.fed)
          ELSE sensor.flatSampleCount >= MOVING_AVG_SAMPLES - 1

C36_Step ==
  hbEnv'.passes # hbEnv.passes =>
    /\ sensor'.lastRawValue = hbEnv'.raw
    /\ sensor'.flatSampleCount =
         IF Abs(hbEnv'.raw - hbEnv.raw) < FLAT_SIGNAL_THRESHOLD
         THEN sensor.flatSampleCount + 1 ELSE 0

\* C36: after every tick flatSampleCount is the number of most recent
\* consecutive ticks whose reading differed from the reading before by less
\* than FLAT_SIGNAL_THRESHOLD - one more than before after such a tick, 0 after
\* any other, 0 after setup() - and lastRawValue is the reading of the tick.
C36_FlatCounter ==
  /\ []C36_Window
  /\ [][C36_Step]_vars

\* C36 witness: a reading 4 away from the one before (counted), then one 5
\* away (the counter back to 0).
C36_Witness ==
  /\ hbEnv.passes >= 3
  /\ hbHist.fed[MOVING_AVG_SAMPLES - 2] = 1999
  /\ hbHist.fed[MOVING_AVG_SAMPLES - 1] = 1995
  /\ hbHist.fed[MOVING_AVG_SAMPLES] = 2000
  /\ sensor.flatSampleCount = 0
  /\ sensor.lastRawValue = 2000

\* the static initialisers of the Heartbeat pipeline are untouched: no
\* initializeSensor, no sample, no WiFi check, no beat
C37_PipelineUntouched ==
  /\ sensor = SensorInitState
  /\ ~hbState.wifiConnected
  /\ hbState.loopCounter = 0
  /\ hbState.lastWiFiCheckTime = 0
  /\ hbLastSampleTime = 0
  /\ hbLastCheckTime = 0
  /\ hbEnv.passes = 0
  /\ hbBeat.kind = "none"
  /\ hbEdges.last = -1

C37_State ==
  /\ boot.pc \in {"connecting", "error", "loop"}
  /\ boot.pc # "loop" => C37_PipelineUntouched
  /\ boot.pc = "connecting" =>
       Sub32(hbNow, boot.startTime) < WIFI_TIMEOUT_MS + 2 * WIFI_POLL_DELAY_MS
  /\ boot.pc = "error" =>
       /\ boot.status # WL_CONNECTED
       /\ Sub32(boot.testedAt, boot.startTime) >= WIFI_TIMEOUT_MS

C37_Step ==
  /\ boot.pc = "error" => boot'.pc = "error"
  /\ boot.pc = "loop" => boot'.pc = "loop"
  /\ (boot.pc = "connecting" /\ boot' # boot) =>
       /\ boot'.testedAt = hbNow
       /\ boot'.pc = "loop" <=> boot'.status = WL_CONNECTED
       /\ boot'.pc = "error" <=>
            /\ boot'.status # WL_CONNECTED
            /\ Sub32(hbNow, boot.startTime) >= WIFI_TIMEOUT_MS
       /\ boot'.pc = "loop" =>
            /\ hbState'.wifiConnected
            /\ sensor' = initializeSensor(SensorInitState, hbEnv'.raw, hbNow)
            /\ hbNow' = hbNow
            /\ hbBeat'.kind = "none"
            /\ hbEnv'.passes = 0

\* C37 (as amended): when WiFi.status() is not WL_CONNECTED at any test of
\* the wait loop of connectWiFi, up to and including the first test made
\* WIFI_TIMEOUT_MS or more after connectWiFi started, setup() enters the
\* error blink and never leaves it: initializeSensor is not called, no sample
\* is processed, no WiFi check is made and no beat is sent.  loop() runs only
\* after a test that saw WL_CONNECTED, and then initializeSensor has run on
\* the static initialisers with wifiConnected set.
C37_StartupFailureIsFinal == []C37_State /\ [][C37_Step]_vars

\* setup() sits in the error blink, several turns in, the pipeline untouched
C37_Witness ==
  /\ boot.pc = "error"
  /\ boot.blinks >= 2
  /\ Sub32(hbNow, boot.startTime) >= WIFI_TIMEOUT_MS + 2 * WIFI_POLL_DELAY_MS

\* C37 (as stated): setup() returns, and loop() runs, only if the connection
\* was found within WIFI_TIMEOUT_MS of the start of connectWiFi
C37_ReturnsOnlyWithinTimeout ==
  boot.pc = "loop" => Sub32(boot.testedAt, boot.startTime) <= WIFI_TIMEOUT_MS

\* the last pass of loop() of esp32_test reported a beat: its reading was
\* above THRESHOLD and not saturated, the reading of the pass before it was
\* at most THRESHOLD or saturated (or there was no pass before it), and the
\* beat came more than REFRACTORY_MS after the beat before it
C39_State ==
  /\ et.raw # -1 =>
       et.lastAboveThreshold = (et.raw > THRESHOLD /\ et.raw < ET_SATURATED)
  /\ et.beat =>
       /\ et.raw > THRESHOLD
       /\ et.raw < ET_SATURATED
       /\ \/ et.prevRaw <= THRESHOLD
          \/ et.prevRaw >= ET_SATURATED
       /\ Sub32(et.lastBeatTime, et.prevBeatTime) > REFRACTORY_MS
  /\ ~et.beat => et.lastBeatTime = et.prevBeatTime

C39_Step ==
  et' # et =>
    /\ et'.prevRaw = et.raw
    /\ et'.prevBeatTime = et.lastBeatTime
    /\ et'.beat =>
         /\ ~et.lastAboveThreshold
         /\ Sub32(et.now, et.lastBeatTime) > REFRACTORY_MS
         /\ Sub32(et'.lastBeatTime, et.now) \in EtLag

\* C39 (as amended): esp32_test reports a beat only on a pass whose reading
\* is above THRESHOLD and below 4095 and whose preceding pass, if any, read
\* at most THRESHOLD or was saturated (4095), and any two successive
\* reported beats are more than REFRACTORY_MS apart.
C39_FixedThresholdDetector == []C39_State /\ [][C39_Step]_vars

\* a second beat has just been reported
C39_Witness ==
  /\ et.beat
  /\ et.prevBeatTime > 0
  /\ et.prevRaw = THRESHOLD

\* C39 (as stated): a beat is reported only on a pass whose preceding pass
\* did not read above THRESHOLD
C39_BeatOnlyAfterLowTick == et.beat => et.prevRaw <= THRESHOLD

\* an idle check that finds three or more deviations in the history is good
\* and enters ACTIVE; ACTIVE is left only on the poor-signal timeout or on the
\* retry limit
C38_Step ==
  /\ (wdt.s.powerState = POWER_STATE_IDLE /\ wdt' # wdt
      /\ hy.stddevHistoryCount >= STABILITY_MIN_ENTRIES - 1) =>
       wdt'.s.powerState = POWER_STATE_ACTIVE
  /\ (wdt.s.powerState = POWER_STATE_ACTIVE
      /\ wdt'.s.powerState = POWER_STATE_IDLE) =>
       /\ wdt'.op \in {"poor", "retry"}
       /\ wdt'.op = "poor" =>
            hy.poorAge >= POOR_SIGNAL_GRACE_PERIOD_MS + SUSTAIN_TIMEOUT_MS

\* C38: when every idle check and every active check measures a deviation
\* above SIGNAL_QUALITY_THRESHOLD_TRIGGER and not above
\* SIGNAL_QUALITY_THRESHOLD_SUSTAIN, Amor is in ACTIVE again and again and in
\* IDLE again and again, for ever.
C38_NeverSettles ==
  /\ []<>(wdt.s.powerState = POWER_STATE_ACTIVE)
  /\ []<>(wdt.s.powerState = POWER_STATE_IDLE)
  /\ [][C38_Step]_vars

\* a session has ended on the poor-signal timeout with WiFi connected, and
\* the device is back in IDLE with an empty history
C38_Witness ==
  /\ wdt.s.powerState = POWER_STATE_IDLE
  /\ wdt.op = "poor"
  /\ hy.stddevHistoryCount = 0
  /\ hy.poorAge >= POOR_SIGNAL_GRACE_PERIOD_MS + SUSTAIN_TIMEOUT_MS
====
